---- MODULE Spec2Model ----
(***************************************************************************)
(* A model of the veil compiler: the Lexer (src/lexer.cpp), the Parser     *)
(* (src/parser.cpp), the program graph they build (src/graph.h), the       *)
(* Translator (src/translator.cpp), the Printer (src/printer.cpp) and the  *)
(* pipeline of main (src/main.cpp).                                        *)
(*                                                                         *)
(* Characters are one-character strings; the source buffer and every       *)
(* lexeme are sequences of characters.  index_ and start_index_ are the    *)
(* 0-based indices of the C++ code, so the current character is            *)
(* source_[index_ + 1] in the 1-based sequences of TLA+.                   *)
(***************************************************************************)
EXTENDS Naturals, Integers, Sequences, FiniteSets, TLC

VARIABLES
  lexer,        \* the Lexer object: its data members (src/lexer.h:65-74)
  lexer_pc,     \* where Lexer::run is: "running" in its loop, or "returned"
  tokens,       \* the vector Lexer::run returned (main's `tokens`)
  eol_logical,  \* line-ending harness: the logical source being rendered
  eol_style,    \* line-ending harness: the rendering now being lexed
  eol_results,  \* line-ending harness: token lists of the finished renderings
  parser,       \* the Parser object: its data members (src/parser.h:46-56)
  parser_pc,    \* where Parser::run is: "constructed", "running", "returned", "failed"
  heap,         \* the entities made by make_shared; an entity's id is its index, 0 is nullptr
  package,      \* the pointer Parser::run returned (main's `package`), 0 before
  parser_error, \* the token Parser::fail printed
  main_pc,      \* where main is; "absent" when a component is driven directly
  output,       \* what the process has written to std::cout and std::cerr, in order
  exit_status,  \* "running", or the status the process ended with
  got           \* container harness: the last lookup made and what it returned

vars ==
  <<lexer, lexer_pc, tokens, eol_logical, eol_style, eol_results,
    parser, parser_pc, heap, package, parser_error,
    main_pc, output, exit_status, got>>

main_vars == <<main_pc, output, exit_status>>

parser_vars == <<parser, parser_pc, heap, package, parser_error>>

lexer_vars == <<lexer, lexer_pc, tokens>>

eol_vars == <<eol_logical, eol_style, eol_results>>

(***************************************************************************)
(* Characters                                                              *)
(***************************************************************************)
NUL == "\\0"

LF == "\n"

CR == "\r"

TAB == "\t"

Lower ==
  {"a","b","c","d","e","f","g","h","i","j","k","l","m",
   "n","o","p","q","r","s","t","u","v","w","x","y","z"}

Upper ==
  {"A","B","C","D","E","F","G","H","I","J","K","L","M",
   "N","O","P","Q","R","S","T","U","V","W","X","Y","Z"}

Digits == {"0","1","2","3","4","5","6","7","8","9"}

\* isalpha and isalnum of <cctype> in the "C" locale
isalpha(c) == c \in Lower \cup Upper

isalnum(c) == c \in Lower \cup Upper \cup Digits

(***************************************************************************)
(* Bounds of the inputs                                                    *)
(***************************************************************************)
\* longest source (before the sentinel) over the whole alphabet
MaxLen == 2

\* longest source over '/', '*' and a letter
MaxSlashStarLen == 5

\* most chunks of a source built of comment delimiters and line breaks
MaxCommentChunks == 5

\* most chunks of a source built of words
MaxWordChunks == 4

\* longest source over tab, space, letter and line feed
MaxTabLen == 4

\* most chunks of a logical source of the line-ending harness
MaxEolChunks == 4

\* The default tab width (Lexer's constructor)
DefaultColumnsPerTab == 2

\* The tab widths given to set_columns_per_tab
TabWidths == {2, 4}

RECURSIVE Flatten(_)
Flatten(ss) == IF ss = <<>> THEN <<>> ELSE Head(ss) \o Flatten(Tail(ss))

\* all sequences over S of length 0..n
SeqsUpTo(S, n) == UNION {[1..k -> S] : k \in 0..n}

Alphabet ==
  {"a", "_", "1", "&", ">", "+", "*", "%", ",", ";", "{", "}", "(", ")",
   LF, CR, TAB, " ", "/", "-", NUL}

CommentChunks == {<<"/", "*">>, <<"*", "/">>, <<"/", "/">>, <<CR>>, <<LF>>, <<"a">>}

WordChunks ==
  {<<"f","u","n","c">>, <<"r","e","t","u","r","n">>, <<"f","u","n","c","s">>,
   <<"R","e","t","u","r","n">>, <<" ">>, <<"/", "/">>, <<LF>>}

TabAlphabet == {TAB, " ", "a", LF}

\* Source buffers: each ends with the sentinel (src/main.cpp:48).
PlainSources ==
  {s \o <<NUL>> : s \in
     SeqsUpTo(Alphabet, MaxLen)
     \cup SeqsUpTo({"/", "*", "a"}, MaxSlashStarLen)
     \cup {Flatten(cs) : cs \in SeqsUpTo(CommentChunks, MaxCommentChunks)}
     \cup {Flatten(cs) : cs \in SeqsUpTo(WordChunks, MaxWordChunks)}}

TabSources == {s \o <<NUL>> : s \in SeqsUpTo(TabAlphabet, MaxTabLen)}

(***************************************************************************)
(* Lexer (src/lexer.cpp): the helpers, as functions of the Lexer object    *)
(***************************************************************************)
\* Lexer::Lexer; start_index_, start_line_number_ and start_column_number_
\* are not initialised by the constructor and are written by start_lexeme
\* before anything reads them.
Lexer(source, columns_per_tab) ==
  [source_ |-> source,
   state_ |-> "start",
   index_ |-> 0,
   start_index_ |-> 0,
   line_number_ |-> 1,
   start_line_number_ |-> 0,
   column_number_ |-> 1,
   start_column_number_ |-> 0,
   columns_per_tab_ |-> columns_per_tab,
   tokens_ |-> <<>>]

current_char(l) == l.source_[l.index_ + 1]

\* start_lexeme that saves the line and column but keeps the saved index
start_lexeme_keeps_index(l) ==
  [l EXCEPT !.start_line_number_ = l.line_number_,
            !.start_column_number_ = l.column_number_]

start_lexeme(l) ==
  [l EXCEPT !.start_index_ = l.index_,
            !.start_line_number_ = l.line_number_,
            !.start_column_number_ = l.column_number_]

\* advance_char without the stop at the last index
advance_char_unbounded(l) ==
  [l EXCEPT !.index_ = l.index_ + 1,
            !.column_number_ = l.column_number_ + 1]

advance_char(l) ==
  IF l.index_ = Len(l.source_) - 1 THEN l
  ELSE [l EXCEPT !.index_ = l.index_ + 1,
                 !.column_number_ = l.column_number_ + 1]

advance_line(l) ==
  [l EXCEPT !.line_number_ = l.line_number_ + 1, !.column_number_ = 1]

advance_tab(l) ==
  [l EXCEPT !.column_number_ =
     ((l.column_number_ + l.columns_per_tab_) \div l.columns_per_tab_)
       * l.columns_per_tab_]

get_lexeme(l) ==
  LET size == l.index_ - l.start_index_ IN
  IF size = 0 THEN <<>>
  ELSE SubSeq(l.source_, l.start_index_ + 1, l.start_index_ + size)

Token(type, lexeme, line_number, column_number) ==
  [type |-> type, lexeme |-> lexeme,
   line_number |-> line_number, column_number |-> column_number]

add_token(l, token_type) ==
  [l EXCEPT !.tokens_ =
     Append(l.tokens_,
            Token(token_type, get_lexeme(l),
                  l.start_line_number_, l.start_column_number_))]

\* get_keyword_token_type matching a keyword as a prefix of the lexeme
get_keyword_token_type_prefix(lexeme) ==
  IF Len(lexeme) >= 4 /\ SubSeq(lexeme, 1, 4) = <<"f","u","n","c">>
  THEN "func_keyword"
  ELSE IF Len(lexeme) >= 6 /\ SubSeq(lexeme, 1, 6) = <<"r","e","t","u","r","n">>
  THEN "return_keyword"
  ELSE "identifier"

get_keyword_token_type(lexeme) ==
  IF lexeme = <<"f","u","n","c">> THEN "func_keyword"
  ELSE IF lexeme = <<"r","e","t","u","r","n">> THEN "return_keyword"
  ELSE "identifier"

set_state(l, s) == [l EXCEPT !.state_ = s]

(***************************************************************************)
(* Lexer::run: one function per case of switch (state_)                    *)
(***************************************************************************)
\* cr_or_crlf that leaves the LF of a CRLF to the start state
run_cr_or_crlf_keeps_lf(l) == set_state(advance_line(l), "start")

run_cr_or_crlf(l) ==
  LET l1 == IF current_char(l) = LF THEN advance_char(l) ELSE l IN
  set_state(advance_line(l1), "start")

\* divide_or_comment consuming the character after the '/'
run_divide_or_comment_consumes(l) ==
  CASE current_char(l) = "/" -> set_state(advance_char(l), "single_line_comment")
    [] current_char(l) = "*" -> set_state(advance_char(l), "multi_line_comment")
    [] OTHER -> set_state(add_token(advance_char(l), "divide"), "start")

run_divide_or_comment(l) ==
  CASE current_char(l) = "/" -> set_state(advance_char(l), "single_line_comment")
    [] current_char(l) = "*" -> set_state(advance_char(l), "multi_line_comment")
    [] OTHER -> set_state(add_token(l, "divide"), "start")

run_identifier_or_keyword(l) ==
  IF isalnum(current_char(l)) \/ current_char(l) = "_" THEN advance_char(l)
  ELSE LET l1 == add_token(l, "identifier")
           n == Len(l1.tokens_)
       IN set_state(
            [l1 EXCEPT !.tokens_[n].type =
               get_keyword_token_type(l1.tokens_[n].lexeme)],
            "start")

\* minus_or_arrow adding the arrow token before the '>' is consumed
run_minus_or_arrow_early(l) ==
  IF current_char(l) = ">"
  THEN set_state(advance_char(add_token(l, "arrow")), "start")
  ELSE set_state(add_token(l, "minus"), "start")

run_minus_or_arrow(l) ==
  IF current_char(l) = ">"
  THEN set_state(add_token(advance_char(l), "arrow"), "start")
  ELSE set_state(add_token(l, "minus"), "start")

run_multi_line_comment(l) ==
  CASE current_char(l) = LF -> advance_line(advance_char(l))
    [] current_char(l) = CR ->
         set_state(advance_char(l), "multi_line_comment_cr_or_crlf")
    [] current_char(l) = "*" ->
         set_state(advance_char(l), "multi_line_comment_maybe_end")
    [] OTHER -> advance_char(l)

\* multi_line_comment_cr_or_crlf that leaves the LF of a CRLF to the comment
run_multi_line_comment_cr_or_crlf_keeps_lf(l) ==
  set_state(advance_line(l), "multi_line_comment")

run_multi_line_comment_cr_or_crlf(l) ==
  LET l1 == IF current_char(l) = LF THEN advance_char(l) ELSE l IN
  set_state(advance_line(l1), "multi_line_comment")

run_multi_line_comment_maybe_end(l) ==
  IF current_char(l) = "/" THEN set_state(advance_char(l), "start")
  ELSE set_state(l, "multi_line_comment")

run_single_line_comment(l) ==
  CASE current_char(l) = LF -> set_state(advance_line(advance_char(l)), "start")
    [] current_char(l) = CR -> set_state(advance_char(l), "cr_or_crlf")
    [] OTHER -> advance_char(l)

\* start_token_type with the semicolon taken for the end of the input
start_token_type_end(c) ==
  CASE c = "+" -> "plus"
    [] c = "*" -> "multiply"
    [] c = "%" -> "modulo"
    [] c = "," -> "comma"
    [] c = ";" -> "end"
    [] c = "{" -> "left_curly"
    [] c = "}" -> "right_curly"
    [] c = "(" -> "left_paren"
    [] c = ")" -> "right_paren"

\* The token type of the one-character tokens of the start state
start_token_type(c) ==
  CASE c = "+" -> "plus"
    [] c = "*" -> "multiply"
    [] c = "%" -> "modulo"
    [] c = "," -> "comma"
    [] c = ";" -> "semicolon"
    [] c = "{" -> "left_curly"
    [] c = "}" -> "right_curly"
    [] c = "(" -> "left_paren"
    [] c = ")" -> "right_paren"

OneCharTokens == {"+", "*", "%", ",", ";", "{", "}", "(", ")"}

\* The start state; on the sentinel the end token is added and run returns
\* (run_returns below).  A character with no case leaves the switch with
\* nothing done: the switch has no default.
run_start(l) ==
  LET s == start_lexeme(l)
      c == current_char(s)
  IN IF isalpha(c) \/ c = "_"
     THEN set_state(advance_char(s), "identifier_or_keyword")
     ELSE CASE c \in OneCharTokens ->
                 set_state(add_token(advance_char(s), start_token_type(c)), "start")
            [] c = LF -> advance_line(advance_char(s))
            [] c = CR -> set_state(advance_char(s), "cr_or_crlf")
            [] c = TAB -> advance_tab(advance_char(s))
            [] c = " " -> advance_char(s)
            [] c = "/" -> set_state(advance_char(s), "divide_or_comment")
            [] c = "-" -> set_state(advance_char(s), "minus_or_arrow")
            [] c = NUL -> add_token(s, "end")
            [] OTHER -> s

\* Whether this pass of the loop executes `return std::move(tokens_)`
run_returns(l) == l.state_ = "start" /\ current_char(l) = NUL

\* One pass of the loop of Lexer::run: switch (state_)
run_step(l) ==
  CASE l.state_ = "cr_or_crlf" -> run_cr_or_crlf(l)
    [] l.state_ = "divide_or_comment" -> run_divide_or_comment(l)
    [] l.state_ = "identifier_or_keyword" -> run_identifier_or_keyword(l)
    [] l.state_ = "minus_or_arrow" -> run_minus_or_arrow(l)
    [] l.state_ = "multi_line_comment" -> run_multi_line_comment(l)
    [] l.state_ = "multi_line_comment_cr_or_crlf" ->
         run_multi_line_comment_cr_or_crlf(l)
    [] l.state_ = "multi_line_comment_maybe_end" ->
         run_multi_line_comment_maybe_end(l)
    [] l.state_ = "single_line_comment" -> run_single_line_comment(l)
    [] l.state_ = "start" -> run_start(l)

(***************************************************************************)
(* Parser (src/parser.cpp): the object and its helpers                     *)
(***************************************************************************)
\* Parser::Parser.  iterator_ is the 1-based position of the current token;
\* the pointer members start as nullptr (0).
Parser(toks) ==
  [tokens_ |-> toks,
   iterator_ |-> 1,
   state_ |-> "start",
   package_ |-> 0,
   function_ |-> 0,
   object_ |-> 0,
   cls_ |-> 0,
   return_statement_ |-> 0,
   object_expression_ |-> 0,
   operator_expression_ |-> 0]

\* The value of parser_error while nothing has been printed
NoToken == Token("none", <<>>, 0, 0)

(***************************************************************************)
(* Actions of the lexer: one per state of the loop                         *)
(***************************************************************************)
\* A pass of the loop that does not return
LexerPass ==
  /\ lexer_pc = "running"
  /\ ~run_returns(lexer)
  /\ lexer' = run_step(lexer)
  /\ UNCHANGED <<lexer_pc, tokens>>
  /\ UNCHANGED eol_vars
  /\ UNCHANGED parser_vars
  /\ UNCHANGED <<main_vars, got>>

CrOrCrlf == lexer.state_ = "cr_or_crlf" /\ LexerPass

DivideOrComment == lexer.state_ = "divide_or_comment" /\ LexerPass

IdentifierOrKeyword == lexer.state_ = "identifier_or_keyword" /\ LexerPass

MinusOrArrow == lexer.state_ = "minus_or_arrow" /\ LexerPass

MultiLineComment == lexer.state_ = "multi_line_comment" /\ LexerPass

MultiLineCommentCrOrCrlf == lexer.state_ = "multi_line_comment_cr_or_crlf" /\ LexerPass

MultiLineCommentMaybeEnd == lexer.state_ = "multi_line_comment_maybe_end" /\ LexerPass

SingleLineComment == lexer.state_ = "single_line_comment" /\ LexerPass

Start == lexer.state_ = "start" /\ LexerPass

\* case '\0' of the start state: the end token is added and the token list
\* is moved out to the caller, which leaves tokens_ empty
StartReturn ==
  /\ lexer_pc = "running"
  /\ run_returns(lexer)
  /\ tokens' = run_step(lexer).tokens_
  /\ lexer' = [run_step(lexer) EXCEPT !.tokens_ = <<>>]
  /\ lexer_pc' = "returned"
  /\ UNCHANGED eol_vars
  /\ UNCHANGED parser_vars
  /\ UNCHANGED <<main_vars, got>>

\* The lexer after construction on a sentinel-terminated source, with the
\* default tab width or after set_columns_per_tab (src/lexer.h:46-48)
LexerInit ==
  /\ \E in \in (PlainSources \X {DefaultColumnsPerTab}) \cup (TabSources \X TabWidths) :
       lexer = Lexer(in[1], in[2])
  /\ lexer_pc = "running"
  /\ tokens = <<>>

\* No line-ending harness
EolIdle ==
  /\ eol_logical = <<>>
  /\ eol_style = 0
  /\ eol_results = <<>>

\* No parser yet
ParserIdle ==
  /\ parser = Parser(<<>>)
  /\ parser_pc = "constructed"
  /\ heap = <<>>
  /\ package = 0
  /\ parser_error = NoToken

\* No lookup made yet
NoLookup == [container |-> 0, field |-> "", name |-> <<>>, result |-> 0]

\* No main: the component is driven directly and nothing has been written
MainIdle ==
  /\ main_pc = "absent"
  /\ output = <<>>
  /\ exit_status = "running"
  /\ got = NoLookup

Init ==
  /\ LexerInit
  /\ EolIdle
  /\ ParserIdle
  /\ MainIdle

Next ==
  \/ CrOrCrlf
  \/ DivideOrComment
  \/ IdentifierOrKeyword
  \/ MinusOrArrow
  \/ MultiLineComment
  \/ MultiLineCommentCrOrCrlf
  \/ MultiLineCommentMaybeEnd
  \/ SingleLineComment
  \/ Start
  \/ StartReturn

Spec == Init /\ [][Next]_vars

\* Lexer::run is a loop that nothing interrupts: a pass that can be made is made
FairSpec == Spec /\ WF_vars(Next)

(***************************************************************************)
(* The line-ending harness: one logical source, written with LF, with lone *)
(* CR and with CRLF line breaks, is lexed three times in turn.             *)
(***************************************************************************)
EOL == "EOL"

EolStyles == <<"LF", "CR", "CRLF">>

EolChunks == {<<"a">>, <<"-">>, <<"/", "*">>, <<"*", "/">>, <<"/", "/">>, <<TAB>>, <<EOL>>}

EolSources == {Flatten(cs) : cs \in SeqsUpTo(EolChunks, MaxEolChunks)}

LineBreak(style) ==
  CASE style = "LF" -> <<LF>>
    [] style = "CR" -> <<CR>>
    [] style = "CRLF" -> <<CR, LF>>

RECURSIVE Render(_, _)
Render(logical, style) ==
  IF logical = <<>> THEN <<NUL>>
  ELSE (IF Head(logical) = EOL THEN LineBreak(style) ELSE <<Head(logical)>>)
         \o Render(Tail(logical), style)

EolInit ==
  /\ eol_logical \in EolSources
  /\ eol_style = 1
  /\ eol_results = <<>>
  /\ lexer = Lexer(Render(eol_logical, EolStyles[1]), DefaultColumnsPerTab)
  /\ lexer_pc = "running"
  /\ tokens = <<>>
  /\ ParserIdle
  /\ MainIdle

\* A run has returned: keep its tokens and lex the next rendering
EolNextStyle ==
  /\ lexer_pc = "returned"
  /\ eol_style < Len(EolStyles)
  /\ eol_results' = Append(eol_results, tokens)
  /\ eol_style' = eol_style + 1
  /\ lexer' = Lexer(Render(eol_logical, EolStyles[eol_style + 1]), DefaultColumnsPerTab)
  /\ lexer_pc' = "running"
  /\ tokens' = <<>>
  /\ UNCHANGED eol_logical
  /\ UNCHANGED parser_vars
  /\ UNCHANGED <<main_vars, got>>

EolNext ==
  \/ CrOrCrlf
  \/ DivideOrComment
  \/ IdentifierOrKeyword
  \/ MinusOrArrow
  \/ MultiLineComment
  \/ MultiLineCommentCrOrCrlf
  \/ MultiLineCommentMaybeEnd
  \/ SingleLineComment
  \/ Start
  \/ StartReturn
  \/ EolNextStyle

EolSpec == EolInit /\ [][EolNext]_vars

(***************************************************************************)
(* Program graph (src/graph.h).  An entity is a record in heap; the        *)
(* shared_ptr to it is its index and nullptr is 0.  Each EntityContainer   *)
(* base of an entity is one list field, named after its accessor.          *)
(***************************************************************************)
Entity(kind) == [kind |-> kind, name_ |-> <<>>, parent_ |-> 0]

PackageEntity ==
  [kind |-> "Package", name_ |-> <<>>, parent_ |-> 0,
   class_entities |-> <<>>, function_entities |-> <<>>]

ClassEntity == Entity("Class")

\* make_shared<Function>() value-initialises return_type_ to ReturnType::none
FunctionEntity ==
  [kind |-> "Function", name_ |-> <<>>, parent_ |-> 0,
   object_entities |-> <<>>, statement_entities |-> <<>>,
   return_type_ |-> "none", return_class_ |-> 0]

ObjectEntity == [kind |-> "Object", name_ |-> <<>>, parent_ |-> 0, cls_ |-> 0]

ReturnStatementEntity ==
  [kind |-> "ReturnStatement", name_ |-> <<>>, parent_ |-> 0, expression_ |-> 0]

ObjectExpressionEntity ==
  [kind |-> "ObjectExpression", name_ |-> <<>>, parent_ |-> 0, object_ |-> 0]

OperatorExpressionEntity ==
  [kind |-> "OperatorExpression", name_ |-> <<>>, parent_ |-> 0,
   operator_type_ |-> "plus", expression_entities |-> <<>>]

\* std::make_shared: the heap with a new entity; its pointer is NewId(h)
make_shared(h, entity) == Append(h, entity)

NewId(h) == Len(h) + 1

set_name(h, e, name) == [h EXCEPT ![e].name_ = name]

\* EntityContainer::get returning the last entity of the list with the name
EntityContainer_get_last(h, c, field, name) ==
  LET es == h[c][field]
      found == {i \in DOMAIN es : h[es[i]].name_ = name}
  IN IF found = {} THEN 0
     ELSE es[CHOOSE i \in found : \A j \in found : i >= j]

\* EntityContainer::get: the first entity of the list with the name, or nullptr
EntityContainer_get(h, c, field, name) ==
  LET es == h[c][field]
      found == {i \in DOMAIN es : h[es[i]].name_ = name}
  IN IF found = {} THEN 0
     ELSE es[CHOOSE i \in found : \A j \in found : i <= j]

\* EntityContainer::add
EntityContainer_add(h, c, field, e) ==
  [h EXCEPT ![c][field] = Append(@, e), ![e].parent_ = c]

\* The list without its i-th element
Erase(es, i) == SubSeq(es, 1, i - 1) \o SubSeq(es, i + 1, Len(es))

\* EntityContainer::remove: the heaps a call may leave.  std::find gives the
\* first occurrence; after entities_.erase(iterator) the iterator designates
\* the element that followed the erased one, and line 325 clears the
\* back-reference through it (read as (*iterator)->parent_; as written,
\* iterator->parent_ names a member of shared_ptr, so no call of remove
\* compiles and the repository makes none).  When the erased element was the
\* last, the iterator is past the end and the write is undefined: the slot
\* may still hold the removed pointer, or the write may land nowhere.
EntityContainer_remove(h, c, field, e) ==
  LET es == h[c][field]
      found == {i \in DOMAIN es : es[i] = e}
  IN IF found = {} THEN {h}
     ELSE LET i == CHOOSE k \in found : \A j \in found : k <= j
              h1 == [h EXCEPT ![c][field] = Erase(es, i)]
          IN IF i <= Len(h1[c][field])
             THEN {[h1 EXCEPT ![h1[c][field][i]].parent_ = 0]}
             ELSE {h1, [h1 EXCEPT ![e].parent_ = 0]}

get_class(h, pkg, name) == EntityContainer_get(h, pkg, "class_entities", name)

\* Function::get_object looking the name up in every function of the package
get_object_any_function(h, f, name) ==
  LET fs == h[h[f].parent_].function_entities
      found == {i \in DOMAIN fs :
                  EntityContainer_get(h, fs[i], "object_entities", name) /= 0}
  IN IF found = {} THEN 0
     ELSE EntityContainer_get(
            h, fs[CHOOSE i \in found : \A j \in found : i <= j],
            "object_entities", name)

get_object(h, f, name) == EntityContainer_get(h, f, "object_entities", name)

(***************************************************************************)
(* Parser::run.  The token vector is fixed when the Parser is constructed; *)
(* the parser reads only the current token and never one behind an end     *)
(* token, so the model chooses each token when the parser first reads it   *)
(* (tokens_ holds the tokens read so far), which gives the same runs as    *)
(* choosing the whole vector first.                                        *)
(***************************************************************************)
\* longest token vector, its end token included
MaxTokens == 17

ParserNames == {<<"i","n","t">>, <<"a">>, <<"b">>}

OtherTokenTypes ==
  {"arrow", "comma", "divide", "end", "func_keyword", "left_curly",
   "left_paren", "minus", "modulo", "multiply", "plus", "return_keyword",
   "right_curly", "right_paren", "semicolon"}

\* The tokens a vector may hold at position i (line 1, column i)
TokensAt(i) ==
  {Token("identifier", n, 1, i) : n \in ParserNames}
    \cup {Token(t, <<>>, 1, i) : t \in OtherTokenTypes}

\* The tokens the current token may be: the one already read at this
\* position, or any token; the vector ends with an end token
CurrentTokens ==
  IF parser.iterator_ <= Len(parser.tokens_)
  THEN {parser.tokens_[parser.iterator_]}
  ELSE IF parser.iterator_ >= MaxTokens
  THEN {Token("end", <<>>, 1, parser.iterator_)}
  ELSE TokensAt(parser.iterator_)

\* The parser having read tok as its current token
Read(p, tok) ==
  IF p.iterator_ <= Len(p.tokens_) THEN p
  ELSE [p EXCEPT !.tokens_ = Append(@, tok)]

current_token(p) == p.tokens_[p.iterator_]

advance_token(p) ==
  IF current_token(p).type = "end" THEN p
  ELSE [p EXCEPT !.iterator_ = @ + 1]

\* state_ = s; advance_token();
Goto(p, s) == advance_token([p EXCEPT !.state_ = s])

\* One write to a stream: what is written and the value formatted into it
Write(stream, what, value) == [stream |-> stream, what |-> what, value |-> value]

\* std::cerr << "error: unexpected token " << current_token() << std::endl
Diagnostic(tok) == Write("cerr", "error: unexpected token", tok)

\* fail that prints the diagnostic and lets Parser::run return the Package
fail_returns(p, h) ==
  /\ parser_pc' = "returned"
  /\ parser_error' = current_token(p)
  /\ output' = Append(output, Diagnostic(current_token(p)))
  /\ package' = p.package_
  /\ parser' = p
  /\ heap' = h
  /\ UNCHANGED exit_status

\* fail that consumes the offending token before it exits
fail_consumes(p, h) ==
  /\ parser_pc' = "failed"
  /\ parser_error' = current_token(p)
  /\ output' = Append(output, Diagnostic(current_token(p)))
  /\ exit_status' = "EXIT_FAILURE"
  /\ parser' = [p EXCEPT !.iterator_ = @ + 1]
  /\ heap' = h
  /\ UNCHANGED package

\* Parser::fail: the current token is printed to std::cerr and the process
\* exits with EXIT_FAILURE
fail(p, h) ==
  /\ parser_pc' = "failed"
  /\ parser_error' = current_token(p)
  /\ output' = Append(output, Diagnostic(current_token(p)))
  /\ exit_status' = "EXIT_FAILURE"
  /\ parser' = p
  /\ heap' = h
  /\ UNCHANGED package

\* A pass of the loop that neither fails nor returns
Continue(p, h) ==
  /\ parser' = p
  /\ heap' = h
  /\ UNCHANGED <<parser_pc, package, parser_error, output, exit_status>>

Running(s) == parser_pc = "running" /\ parser.state_ = s

\* The prologue without the int class
RunPrologue_no_int ==
  /\ parser_pc = "constructed"
  /\ LET h1 == set_name(make_shared(heap, PackageEntity), NewId(heap),
                        <<"d","e","f","a","u","l","t">>)
         pkg == NewId(heap)
     IN /\ heap' = h1
        /\ parser' = [parser EXCEPT !.package_ = pkg]
  /\ parser_pc' = "running"
  /\ UNCHANGED <<package, parser_error, output, exit_status>>
  /\ UNCHANGED <<lexer_vars, eol_vars, main_pc, got>>

\* Parser::run before its loop: the package and the int class
RunPrologue ==
  /\ parser_pc = "constructed"
  /\ LET h1 == set_name(make_shared(heap, PackageEntity), NewId(heap),
                        <<"d","e","f","a","u","l","t">>)
         pkg == NewId(heap)
         h2 == set_name(make_shared(h1, ClassEntity), NewId(h1), <<"i","n","t">>)
         int_class == NewId(h1)
     IN /\ heap' = EntityContainer_add(h2, pkg, "class_entities", int_class)
        /\ parser' = [parser EXCEPT !.package_ = pkg]
  /\ parser_pc' = "running"
  /\ UNCHANGED <<package, parser_error, output, exit_status>>
  /\ UNCHANGED <<lexer_vars, eol_vars, main_pc, got>>

ParseStart ==
  /\ Running("start")
  /\ \E tok \in CurrentTokens :
       LET p == Read(parser, tok) IN
       \/ /\ tok.type = "end"
          /\ parser_pc' = "returned"
          /\ package' = p.package_
          /\ parser' = p
          /\ UNCHANGED <<heap, parser_error, output, exit_status>>
       \/ /\ tok.type = "func_keyword"
          /\ LET f == NewId(heap)
                 h1 == make_shared(heap, FunctionEntity)
                 h2 == [h1 EXCEPT ![f].return_type_ = "none"]
                 h3 == EntityContainer_add(h2, p.package_, "function_entities", f)
             IN Continue(Goto([p EXCEPT !.function_ = f], "func_name"), h3)
       \/ /\ tok.type \notin {"end", "func_keyword"}
          /\ fail(p, heap)
  /\ UNCHANGED <<lexer_vars, eol_vars, main_pc, got>>

ParseFuncName ==
  /\ Running("func_name")
  /\ \E tok \in CurrentTokens :
       LET p == Read(parser, tok) IN
       \/ /\ tok.type = "identifier"
          /\ Continue(Goto(p, "func_params_start"),
                      set_name(heap, p.function_, tok.lexeme))
       \/ /\ tok.type /= "identifier"
          /\ fail(p, heap)
  /\ UNCHANGED <<lexer_vars, eol_vars, main_pc, got>>

ParseFuncParamsStart ==
  /\ Running("func_params_start")
  /\ \E tok \in CurrentTokens :
       LET p == Read(parser, tok) IN
       \/ /\ tok.type = "left_paren"
          /\ Continue(Goto(p, "func_param_or_end"), heap)
       \/ /\ tok.type /= "left_paren"
          /\ fail(p, heap)
  /\ UNCHANGED <<lexer_vars, eol_vars, main_pc, got>>

ParseFuncParamOrEnd ==
  /\ Running("func_param_or_end")
  /\ \E tok \in CurrentTokens :
       LET p == Read(parser, tok) IN
       \/ /\ tok.type = "right_paren"
          /\ Continue(Goto(p, "func_return_clause"), heap)
       \/ /\ tok.type /= "right_paren"
          /\ Continue([p EXCEPT !.state_ = "func_param"], heap)
  /\ UNCHANGED <<lexer_vars, eol_vars, main_pc, got>>

\* func_param without the check of the class found
ParseFuncParam_unchecked ==
  /\ Running("func_param")
  /\ \E tok \in CurrentTokens :
       LET p == Read(parser, tok)
           cls == get_class(heap, p.package_, tok.lexeme)
       IN
       \/ /\ tok.type = "identifier"
          /\ LET o == NewId(heap)
                 h1 == make_shared(heap, ObjectEntity)
                 h2 == [h1 EXCEPT ![o].cls_ = cls]
                 h3 == EntityContainer_add(h2, p.function_, "object_entities", o)
             IN Continue(Goto([p EXCEPT !.cls_ = cls, !.object_ = o],
                              "func_param_name"), h3)
       \/ /\ tok.type /= "identifier"
          /\ fail(p, heap)
  /\ UNCHANGED <<lexer_vars, eol_vars, main_pc, got>>

ParseFuncParam ==
  /\ Running("func_param")
  /\ \E tok \in CurrentTokens :
       LET p == Read(parser, tok)
           cls == get_class(heap, p.package_, tok.lexeme)
       IN
       \/ /\ tok.type = "identifier"
          /\ cls = 0
          /\ fail([p EXCEPT !.cls_ = 0], heap)
       \/ /\ tok.type = "identifier"
          /\ cls /= 0
          /\ LET o == NewId(heap)
                 h1 == make_shared(heap, ObjectEntity)
                 h2 == [h1 EXCEPT ![o].cls_ = cls]
                 h3 == EntityContainer_add(h2, p.function_, "object_entities", o)
             IN Continue(Goto([p EXCEPT !.cls_ = cls, !.object_ = o],
                              "func_param_name"), h3)
       \/ /\ tok.type /= "identifier"
          /\ fail(p, heap)
  /\ UNCHANGED <<lexer_vars, eol_vars, main_pc, got>>

ParseFuncParamName ==
  /\ Running("func_param_name")
  /\ \E tok \in CurrentTokens :
       LET p == Read(parser, tok) IN
       \/ /\ tok.type = "identifier"
          /\ Continue(Goto(p, "func_params_next_or_end"),
                      set_name(heap, p.object_, tok.lexeme))
       \/ /\ tok.type /= "identifier"
          /\ fail(p, heap)
  /\ UNCHANGED <<lexer_vars, eol_vars, main_pc, got>>

ParseFuncParamsNextOrEnd ==
  /\ Running("func_params_next_or_end")
  /\ \E tok \in CurrentTokens :
       LET p == Read(parser, tok) IN
       \/ /\ tok.type = "comma"
          /\ Continue(Goto(p, "func_param"), heap)
       \/ /\ tok.type = "right_paren"
          /\ Continue(Goto(p, "func_return_clause"), heap)
       \/ /\ tok.type \notin {"comma", "right_paren"}
          /\ fail(p, heap)
  /\ UNCHANGED <<lexer_vars, eol_vars, main_pc, got>>

\* func_return_clause whose default case leaves state_ as it is
ParseFuncReturnClause_stays ==
  /\ Running("func_return_clause")
  /\ \E tok \in CurrentTokens :
       LET p == Read(parser, tok) IN
       \/ /\ tok.type = "arrow"
          /\ Continue(Goto(p, "func_return_type"), heap)
       \/ /\ tok.type /= "arrow"
          /\ Continue(p, heap)
  /\ UNCHANGED <<lexer_vars, eol_vars, main_pc, got>>

ParseFuncReturnClause ==
  /\ Running("func_return_clause")
  /\ \E tok \in CurrentTokens :
       LET p == Read(parser, tok) IN
       \/ /\ tok.type = "arrow"
          /\ Continue(Goto(p, "func_return_type"), heap)
       \/ /\ tok.type /= "arrow"
          /\ Continue([p EXCEPT !.state_ = "func_body"], heap)
  /\ UNCHANGED <<lexer_vars, eol_vars, main_pc, got>>

\* func_return_type without the check of the class found
ParseFuncReturnType_unchecked ==
  /\ Running("func_return_type")
  /\ \E tok \in CurrentTokens :
       LET p == Read(parser, tok)
           cls == get_class(heap, p.package_, tok.lexeme)
       IN
       \/ /\ tok.type = "identifier"
          /\ Continue(Goto([p EXCEPT !.cls_ = cls], "func_body"),
                      [heap EXCEPT ![p.function_].return_type_ = "value",
                                   ![p.function_].return_class_ = cls])
       \/ /\ tok.type /= "identifier"
          /\ fail(p, heap)
  /\ UNCHANGED <<lexer_vars, eol_vars, main_pc, got>>

ParseFuncReturnType ==
  /\ Running("func_return_type")
  /\ \E tok \in CurrentTokens :
       LET p == Read(parser, tok)
           cls == get_class(heap, p.package_, tok.lexeme)
       IN
       \/ /\ tok.type = "identifier"
          /\ cls = 0
          /\ fail([p EXCEPT !.cls_ = 0], heap)
       \/ /\ tok.type = "identifier"
          /\ cls /= 0
          /\ Continue(Goto([p EXCEPT !.cls_ = cls], "func_body"),
                      [heap EXCEPT ![p.function_].return_type_ = "value",
                                   ![p.function_].return_class_ = cls])
       \/ /\ tok.type /= "identifier"
          /\ fail(p, heap)
  /\ UNCHANGED <<lexer_vars, eol_vars, main_pc, got>>

ParseFuncBody ==
  /\ Running("func_body")
  /\ \E tok \in CurrentTokens :
       LET p == Read(parser, tok) IN
       \/ /\ tok.type = "left_curly"
          /\ Continue(Goto(p, "statement"), heap)
       \/ /\ tok.type /= "left_curly"
          /\ fail(p, heap)
  /\ UNCHANGED <<lexer_vars, eol_vars, main_pc, got>>

ParseStatement ==
  /\ Running("statement")
  /\ \E tok \in CurrentTokens :
       LET p == Read(parser, tok) IN
       \/ /\ tok.type = "right_curly"
          /\ Continue(Goto(p, "start"), heap)
       \/ /\ tok.type = "return_keyword"
          /\ LET r == NewId(heap)
                 h1 == make_shared(heap, ReturnStatementEntity)
                 h2 == EntityContainer_add(h1, p.function_, "statement_entities", r)
             IN Continue(Goto([p EXCEPT !.return_statement_ = r],
                              "expression_value"), h2)
       \/ /\ tok.type \notin {"right_curly", "return_keyword"}
          /\ fail(p, heap)
  /\ UNCHANGED <<lexer_vars, eol_vars, main_pc, got>>

\* expression_value without the check of the object found
ParseExpressionValue_unchecked ==
  /\ Running("expression_value")
  /\ \E tok \in CurrentTokens :
       LET p == Read(parser, tok)
           object == get_object(heap, p.function_, tok.lexeme)
       IN
       \/ /\ tok.type = "identifier"
          /\ LET e == NewId(heap)
                 h1 == make_shared(heap, ObjectExpressionEntity)
                 h2 == [h1 EXCEPT ![e].object_ = object]
             IN Continue(Goto([p EXCEPT !.object_ = object,
                                        !.object_expression_ = e],
                              "expression_operator"), h2)
       \/ /\ tok.type /= "identifier"
          /\ fail(p, heap)
  /\ UNCHANGED <<lexer_vars, eol_vars, main_pc, got>>

ParseExpressionValue ==
  /\ Running("expression_value")
  /\ \E tok \in CurrentTokens :
       LET p == Read(parser, tok)
           object == get_object(heap, p.function_, tok.lexeme)
       IN
       \/ /\ tok.type = "identifier"
          /\ object = 0
          /\ fail([p EXCEPT !.object_ = 0], heap)
       \/ /\ tok.type = "identifier"
          /\ object /= 0
          /\ LET e == NewId(heap)
                 h1 == make_shared(heap, ObjectExpressionEntity)
                 h2 == [h1 EXCEPT ![e].object_ = object]
             IN Continue(Goto([p EXCEPT !.object_ = object,
                                        !.object_expression_ = e],
                              "expression_operator"), h2)
       \/ /\ tok.type /= "identifier"
          /\ fail(p, heap)
  /\ UNCHANGED <<lexer_vars, eol_vars, main_pc, got>>

\* expression_operator folding every operand of a chain into one node
ParseExpressionOperator_flat ==
  /\ Running("expression_operator")
  /\ \E tok \in CurrentTokens :
       LET p == Read(parser, tok) IN
       \/ /\ tok.type = "semicolon"
          /\ p.operator_expression_ /= 0
          /\ LET h1 == EntityContainer_add(heap, p.operator_expression_,
                                           "expression_entities",
                                           p.object_expression_)
                 h2 == [h1 EXCEPT ![p.return_statement_].expression_ =
                                     p.operator_expression_]
             IN Continue(Goto([p EXCEPT !.operator_expression_ = 0,
                                        !.object_expression_ = 0],
                              "statement"), h2)
       \/ /\ tok.type = "semicolon"
          /\ p.operator_expression_ = 0
          /\ Continue(Goto([p EXCEPT !.object_expression_ = 0], "statement"),
                      [heap EXCEPT ![p.return_statement_].expression_ =
                                      p.object_expression_])
       \/ /\ tok.type = "plus"
          /\ p.operator_expression_ /= 0
          /\ Continue(Goto([p EXCEPT !.object_expression_ = 0],
                           "expression_value"),
                      EntityContainer_add(heap, p.operator_expression_,
                                          "expression_entities",
                                          p.object_expression_))
       \/ /\ tok.type = "plus"
          /\ p.operator_expression_ = 0
          /\ LET operator_expression == NewId(heap)
                 h1 == make_shared(heap, OperatorExpressionEntity)
                 h2 == [h1 EXCEPT ![operator_expression].operator_type_ = "plus"]
                 h3 == EntityContainer_add(h2, operator_expression,
                                           "expression_entities",
                                           p.object_expression_)
             IN Continue(Goto([p EXCEPT !.operator_expression_ = operator_expression,
                                        !.object_expression_ = 0],
                              "expression_value"), h3)
       \/ /\ tok.type \notin {"semicolon", "plus"}
          /\ fail(p, heap)
  /\ UNCHANGED <<lexer_vars, eol_vars, main_pc, got>>

\* expression_operator whose semicolon keeps the pending operator expression
ParseExpressionOperator_keeps ==
  /\ Running("expression_operator")
  /\ \E tok \in CurrentTokens :
       LET p == Read(parser, tok) IN
       \/ /\ tok.type = "semicolon"
          /\ p.operator_expression_ /= 0
          /\ LET h1 == EntityContainer_add(heap, p.operator_expression_,
                                           "expression_entities",
                                           p.object_expression_)
                 h2 == [h1 EXCEPT ![p.return_statement_].expression_ =
                                     p.operator_expression_]
             IN Continue(Goto([p EXCEPT !.object_expression_ = 0],
                              "statement"), h2)
       \/ /\ tok.type = "semicolon"
          /\ p.operator_expression_ = 0
          /\ Continue(Goto([p EXCEPT !.object_expression_ = 0], "statement"),
                      [heap EXCEPT ![p.return_statement_].expression_ =
                                      p.object_expression_])
       \/ /\ tok.type = "plus"
          /\ p.operator_expression_ /= 0
          /\ LET operator_expression == NewId(heap)
                 h1 == make_shared(heap, OperatorExpressionEntity)
                 h2 == [h1 EXCEPT ![operator_expression].operator_type_ = "plus"]
                 h3 == EntityContainer_add(h2, p.operator_expression_,
                                           "expression_entities",
                                           p.object_expression_)
                 h4 == EntityContainer_add(h3, operator_expression,
                                           "expression_entities",
                                           p.operator_expression_)
             IN Continue(Goto([p EXCEPT !.operator_expression_ = operator_expression,
                                        !.object_expression_ = 0],
                              "expression_value"), h4)
       \/ /\ tok.type = "plus"
          /\ p.operator_expression_ = 0
          /\ LET operator_expression == NewId(heap)
                 h1 == make_shared(heap, OperatorExpressionEntity)
                 h2 == [h1 EXCEPT ![operator_expression].operator_type_ = "plus"]
                 h3 == EntityContainer_add(h2, operator_expression,
                                           "expression_entities",
                                           p.object_expression_)
             IN Continue(Goto([p EXCEPT !.operator_expression_ = operator_expression,
                                        !.object_expression_ = 0],
                              "expression_value"), h3)
       \/ /\ tok.type \notin {"semicolon", "plus"}
          /\ fail(p, heap)
  /\ UNCHANGED <<lexer_vars, eol_vars, main_pc, got>>

\* expression_operator whose plus adds the new operator expression to itself
ParseExpressionOperator_self ==
  /\ Running("expression_operator")
  /\ \E tok \in CurrentTokens :
       LET p == Read(parser, tok) IN
       \/ /\ tok.type = "semicolon"
          /\ p.operator_expression_ /= 0
          /\ LET h1 == EntityContainer_add(heap, p.operator_expression_,
                                           "expression_entities",
                                           p.object_expression_)
                 h2 == [h1 EXCEPT ![p.return_statement_].expression_ =
                                     p.operator_expression_]
             IN Continue(Goto([p EXCEPT !.operator_expression_ = 0,
                                        !.object_expression_ = 0],
                              "statement"), h2)
       \/ /\ tok.type = "semicolon"
          /\ p.operator_expression_ = 0
          /\ Continue(Goto([p EXCEPT !.object_expression_ = 0], "statement"),
                      [heap EXCEPT ![p.return_statement_].expression_ =
                                      p.object_expression_])
       \/ /\ tok.type = "plus"
          /\ p.operator_expression_ /= 0
          /\ LET operator_expression == NewId(heap)
                 h1 == make_shared(heap, OperatorExpressionEntity)
                 h2 == [h1 EXCEPT ![operator_expression].operator_type_ = "plus"]
                 h3 == EntityContainer_add(h2, p.operator_expression_,
                                           "expression_entities",
                                           p.object_expression_)
                 h4 == EntityContainer_add(h3, operator_expression,
                                           "expression_entities",
                                           operator_expression)
             IN Continue(Goto([p EXCEPT !.operator_expression_ = operator_expression,
                                        !.object_expression_ = 0],
                              "expression_value"), h4)
       \/ /\ tok.type = "plus"
          /\ p.operator_expression_ = 0
          /\ LET operator_expression == NewId(heap)
                 h1 == make_shared(heap, OperatorExpressionEntity)
                 h2 == [h1 EXCEPT ![operator_expression].operator_type_ = "plus"]
                 h3 == EntityContainer_add(h2, operator_expression,
                                           "expression_entities",
                                           p.object_expression_)
             IN Continue(Goto([p EXCEPT !.operator_expression_ = operator_expression,
                                        !.object_expression_ = 0],
                              "expression_value"), h3)
       \/ /\ tok.type \notin {"semicolon", "plus"}
          /\ fail(p, heap)
  /\ UNCHANGED <<lexer_vars, eol_vars, main_pc, got>>

ParseExpressionOperator ==
  /\ Running("expression_operator")
  /\ \E tok \in CurrentTokens :
       LET p == Read(parser, tok) IN
       \/ /\ tok.type = "semicolon"
          /\ p.operator_expression_ /= 0
          /\ LET h1 == EntityContainer_add(heap, p.operator_expression_,
                                           "expression_entities",
                                           p.object_expression_)
                 h2 == [h1 EXCEPT ![p.return_statement_].expression_ =
                                     p.operator_expression_]
             IN Continue(Goto([p EXCEPT !.operator_expression_ = 0,
                                        !.object_expression_ = 0],
                              "statement"), h2)
       \/ /\ tok.type = "semicolon"
          /\ p.operator_expression_ = 0
          /\ Continue(Goto([p EXCEPT !.object_expression_ = 0], "statement"),
                      [heap EXCEPT ![p.return_statement_].expression_ =
                                      p.object_expression_])
       \/ /\ tok.type = "plus"
          /\ p.operator_expression_ /= 0
          /\ LET operator_expression == NewId(heap)
                 h1 == make_shared(heap, OperatorExpressionEntity)
                 h2 == [h1 EXCEPT ![operator_expression].operator_type_ = "plus"]
                 h3 == EntityContainer_add(h2, p.operator_expression_,
                                           "expression_entities",
                                           p.object_expression_)
                 h4 == EntityContainer_add(h3, operator_expression,
                                           "expression_entities",
                                           p.operator_expression_)
             IN Continue(Goto([p EXCEPT !.operator_expression_ = operator_expression,
                                        !.object_expression_ = 0],
                              "expression_value"), h4)
       \/ /\ tok.type = "plus"
          /\ p.operator_expression_ = 0
          /\ LET operator_expression == NewId(heap)
                 h1 == make_shared(heap, OperatorExpressionEntity)
                 h2 == [h1 EXCEPT ![operator_expression].operator_type_ = "plus"]
                 h3 == EntityContainer_add(h2, operator_expression,
                                           "expression_entities",
                                           p.object_expression_)
             IN Continue(Goto([p EXCEPT !.operator_expression_ = operator_expression,
                                        !.object_expression_ = 0],
                              "expression_value"), h3)
       \/ /\ tok.type \notin {"semicolon", "plus"}
          /\ fail(p, heap)
  /\ UNCHANGED <<lexer_vars, eol_vars, main_pc, got>>

\* No lexer: the parser is given its token vector directly
LexerIdle ==
  /\ lexer = Lexer(<<NUL>>, DefaultColumnsPerTab)
  /\ lexer_pc = "returned"
  /\ tokens = <<>>

ParserInit ==
  /\ ParserIdle
  /\ LexerIdle
  /\ EolIdle
  /\ MainIdle

ParserNext ==
  \/ RunPrologue
  \/ ParseStart
  \/ ParseFuncName
  \/ ParseFuncParamsStart
  \/ ParseFuncParamOrEnd
  \/ ParseFuncParam
  \/ ParseFuncParamName
  \/ ParseFuncParamsNextOrEnd
  \/ ParseFuncReturnClause
  \/ ParseFuncReturnType
  \/ ParseFuncBody
  \/ ParseStatement
  \/ ParseExpressionValue
  \/ ParseExpressionOperator

ParserSpec == ParserInit /\ [][ParserNext]_vars

\* Parser::run is a loop that nothing interrupts: a pass that can be made is made
ParserFairSpec == ParserSpec /\ WF_vars(ParserNext)

(***************************************************************************)
(* Translator (src/translator.cpp).  Text is a sequence of characters.     *)
(***************************************************************************)
\* translate(OperatorType)
translate_operator_type(operator_type) ==
  IF operator_type = "plus" THEN <<"+">> ELSE <<"?">>

RECURSIVE translate_expression(_, _)
RECURSIVE translate_operands(_, _, _)

\* The operand loop with the operator text after every operand
RECURSIVE translate_operands_trailing(_, _, _)
translate_operands_trailing(h, e, i) ==
  LET es == h[e].expression_entities IN
  IF i > Len(es) THEN <<>>
  ELSE translate_expression(h, es[i])
         \o translate_operator_type(h[e].operator_type_)
         \o translate_operands_trailing(h, e, i + 1)

\* The loop of translate(Expression) over the operands from the i-th on:
\* the operator text follows every operand but the last
translate_operands(h, e, i) ==
  LET es == h[e].expression_entities IN
  IF i > Len(es) THEN <<>>
  ELSE translate_expression(h, es[i])
         \o (IF i /= Len(es) THEN translate_operator_type(h[e].operator_type_)
             ELSE <<>>)
         \o translate_operands(h, e, i + 1)

\* translate(Expression) without the parentheses of an operator expression
translate_expression_bare(h, e) ==
  IF e = 0 THEN <<>>
  ELSE IF h[e].kind = "OperatorExpression"
  THEN translate_operands(h, e, 1)
  ELSE IF h[e].kind = "ObjectExpression"
  THEN h[h[e].object_].name_
  ELSE <<>>

\* translate(Expression); a pointer that casts to neither kind gives no text
translate_expression(h, e) ==
  IF e = 0 THEN <<>>
  ELSE IF h[e].kind = "OperatorExpression"
  THEN <<"(">> \o translate_operands(h, e, 1) \o <<")">>
  ELSE IF h[e].kind = "ObjectExpression"
  THEN h[h[e].object_].name_
  ELSE <<>>

\* The parameter loop with the separator after every parameter
RECURSIVE translate_params_trailing(_, _, _)
translate_params_trailing(h, f, i) ==
  LET os == h[f].object_entities IN
  IF i > Len(os) THEN <<>>
  ELSE h[h[os[i]].cls_].name_ \o <<" ">> \o h[os[i]].name_
         \o <<",", " ">>
         \o translate_params_trailing(h, f, i + 1)

\* The parameter loop of translate(Function) from the i-th Object on
RECURSIVE translate_params(_, _, _)
translate_params(h, f, i) ==
  LET os == h[f].object_entities IN
  IF i > Len(os) THEN <<>>
  ELSE h[h[os[i]].cls_].name_ \o <<" ">> \o h[os[i]].name_
         \o (IF i /= Len(os) THEN <<",", " ">> ELSE <<>>)
         \o translate_params(h, f, i + 1)

\* The statement loop of translate(Function) from the i-th Statement on
RECURSIVE translate_statements(_, _, _)
translate_statements(h, f, i) ==
  LET ss == h[f].statement_entities IN
  IF i > Len(ss) THEN <<>>
  ELSE <<" ", " ">>
         \o (IF h[ss[i]].kind = "ReturnStatement"
             THEN <<"r", "e", "t", "u", "r", "n", " ">> \o translate_expression(h, h[ss[i]].expression_)
             ELSE <<>>)
         \o <<";", LF>>
         \o translate_statements(h, f, i + 1)

\* translate(Function)
translate_function(h, f) ==
  (IF h[f].return_type_ = "none" THEN <<"v", "o", "i", "d", " ">>
   ELSE IF h[f].return_type_ = "value"
   THEN h[h[f].return_class_].name_ \o <<" ">>
   ELSE <<>>)
    \o h[f].name_ \o <<"(">>
    \o translate_params(h, f, 1) \o <<")", " ", "{", LF>>
    \o translate_statements(h, f, 1)
    \o <<"}", LF>>

\* translate(Package)
translate_package(h, pkg) ==
  Flatten([i \in DOMAIN h[pkg].function_entities |->
             translate_function(h, h[pkg].function_entities[i])])

(***************************************************************************)
(* Printer (src/printer.cpp): the debug view of the graph                  *)
(***************************************************************************)
\* std::string text(indent, ' ')
Spaces(indent) == [i \in 1..indent |-> " "]

\* print(ReturnType)
print_return_type(return_type) ==
  CASE return_type = "none" -> <<"n", "o", "n", "e">>
    [] return_type = "value" -> <<"v", "a", "l", "u", "e">>
    [] OTHER -> <<"u", "n", "k", "n", "o", "w", "n">>

\* print(OperatorType)
print_operator_type(operator_type) ==
  IF operator_type = "plus" THEN <<"p", "l", "u", "s">> ELSE <<"u", "n", "k", "n", "o", "w", "n">>

\* print(Class)
print_class(h, cls, indent) ==
  Spaces(indent) \o <<"C", "l", "a", "s", "s", ":">> \o h[cls].name_ \o <<LF>>

\* print(Object)
print_object(h, object, indent) ==
  Spaces(indent) \o <<"O", "b", "j", "e", "c", "t", ":">> \o h[object].name_ \o <<LF>>
    \o print_class(h, h[object].cls_, indent + 2)

\* print(Expression)
RECURSIVE print_expression(_, _, _)
print_expression(h, e, indent) ==
  Spaces(indent)
    \o (IF e = 0 THEN <<>>
        ELSE IF h[e].kind = "OperatorExpression"
        THEN <<"O", "p", "e", "r", "a", "t", "o", "r", "E", "x", "p", "r", "e", "s", "s", "i", "o", "n", ":">> \o print_operator_type(h[e].operator_type_)
               \o <<LF>>
               \o Flatten([i \in DOMAIN h[e].expression_entities |->
                     print_expression(h, h[e].expression_entities[i], indent + 2)])
        ELSE IF h[e].kind = "ObjectExpression"
        THEN <<"O", "b", "j", "e", "c", "t", "E", "x", "p", "r", "e", "s", "s", "i", "o", "n">> \o <<LF>>
               \o print_object(h, h[e].object_, indent + 2)
        ELSE <<>>)

\* print(Statement)
print_statement(h, statement, indent) ==
  Spaces(indent)
    \o (IF h[statement].kind = "ReturnStatement"
        THEN <<"R", "e", "t", "u", "r", "n", "S", "t", "a", "t", "e", "m", "e", "n", "t">> \o <<LF>>
               \o print_expression(h, h[statement].expression_, indent + 2)
        ELSE <<>>)

\* print(Function)
print_function(h, f, indent) ==
  Spaces(indent) \o <<"F", "u", "n", "c", "t", "i", "o", "n", ":">> \o print_return_type(h[f].return_type_) \o <<LF>>
    \o (IF h[f].return_type_ = "value"
        THEN print_class(h, h[f].return_class_, indent + 2) ELSE <<>>)
    \o Flatten([i \in DOMAIN h[f].object_entities |->
          print_object(h, h[f].object_entities[i], indent + 2)])
    \o Flatten([i \in DOMAIN h[f].statement_entities |->
          print_statement(h, h[f].statement_entities[i], indent + 2)])

\* print(Package)
print_package(h, pkg, indent) ==
  Spaces(indent) \o <<"P", "a", "c", "k", "a", "g", "e", ":">> \o h[pkg].name_ \o <<LF>>
    \o Flatten([i \in DOMAIN h[pkg].function_entities |->
          print_function(h, h[pkg].function_entities[i], indent + 2)])

(***************************************************************************)
(* main (src/main.cpp:52-73): read the file, lex, print the tokens, parse, *)
(* print the graph, translate.  Parser::fail ends the process in between.  *)
(***************************************************************************)
\* input.v: the round-trip scenario
AddSource ==
  <<"f", "u", "n", "c", " ", "a", "d", "d", "(", "i", "n", "t", " ", "a",
    ",", " ", "i", "n", "t", " ", "b", ")", " ", "-", ">", " ", "i", "n",
    "t", " ", "{", " ", "r", "e", "t", "u", "r", "n", " ", "a", "+", "b",
    ";", " ", "}">>

\* input.v: the no-return scenario
NoopSource ==
  <<"f", "u", "n", "c", " ", "n", "o", "o", "p", "(", ")", " ", "{", " ",
    "}">>

\* input.v: comments, a tab and CRLF line breaks
CommentSource ==
  <<"/", "/", " ", "c", CR, LF, "f", "u", "n", "c", " ", "f", "(", "i",
    "n", "t", " ", "a", ")", " ", "{", TAB, "/", "*", " ", "x", CR, LF,
    " ", "*", "/", " ", "r", "e", "t", "u", "r", "n", " ", "a", ";", " ",
    "}", LF>>

\* input.v: a chain of three operands
ChainSource ==
  <<"f", "u", "n", "c", " ", "f", "(", "i", "n", "t", " ", "a", ",", " ",
    "i", "n", "t", " ", "b", ",", " ", "i", "n", "t", " ", "c", ")", " ",
    "-", ">", " ", "i", "n", "t", " ", "{", " ", "r", "e", "t", "u", "r",
    "n", " ", "a", "+", "b", "+", "c", ";", " ", "}">>

\* input.v: a parameter of an undeclared class
UnknownClassSource ==
  <<"f", "u", "n", "c", " ", "f", "(", "x", " ", "a", ")", " ", "{", " ",
    "}">>

\* input.v: an operand that names no object
UnknownObjectSource ==
  <<"f", "u", "n", "c", " ", "f", "(", ")", " ", "{", " ", "r", "e", "t",
    "u", "r", "n", " ", "a", ";", " ", "}">>

\* input.v: no func keyword
NoFuncSource ==
  <<"a", " ", "-", " ", "b">>

\* input.v: an arrow without a class
NoReturnTypeSource ==
  <<"f", "u", "n", "c", " ", "f", "(", ")", " ", "-", ">", " ", "{", " ",
    "}">>

MainSources ==
  {AddSource,
   NoopSource,
   CommentSource,
   ChainSource,
   UnknownClassSource,
   UnknownObjectSource,
   NoFuncSource,
   NoReturnTypeSource}

\* main up to the call of Lexer::run; read_file appends the sentinel
MainReadFile ==
  /\ main_pc = "start"
  /\ \E src \in MainSources :
       LET source_code == src \o <<NUL>> IN
       /\ output' = output \o <<Write("cout", "header", "----------V Code----------"),
                                 Write("cout", "source_code", source_code)>>
       /\ lexer' = Lexer(source_code, DefaultColumnsPerTab)
  /\ lexer_pc' = "running"
  /\ main_pc' = "lexing"
  /\ UNCHANGED <<tokens, exit_status, got>>
  /\ UNCHANGED <<eol_vars, parser_vars>>

\* print_tokens(tokens): one write per token
print_tokens(ts) == [i \in DOMAIN ts |-> Write("cout", "token", ts[i])]

\* main from the return of Lexer::run up to the call of Parser::run; the
\* token vector is moved into the Parser
MainPrintTokens ==
  /\ main_pc = "lexing"
  /\ lexer_pc = "returned"
  /\ output' = output \o <<Write("cout", "header", "----------Tokens----------")>>
                      \o print_tokens(tokens)
  /\ parser' = Parser(tokens)
  /\ parser_pc' = "constructed"
  /\ tokens' = <<>>
  /\ main_pc' = "parsing"
  /\ UNCHANGED <<lexer, lexer_pc, heap, package, parser_error, exit_status, got>>
  /\ UNCHANGED eol_vars

\* main from the return of Parser::run: the graph view
MainPrintGraph ==
  /\ main_pc = "parsing"
  /\ parser_pc = "returned"
  /\ output' = output \o <<Write("cout", "header", "----------Graph ----------"),
                            Write("cout", "graph", print_package(heap, package, 0))>>
  /\ main_pc' = "translating"
  /\ UNCHANGED <<exit_status, got>>
  /\ UNCHANGED <<lexer_vars, eol_vars, parser_vars>>

\* main to its end: the C code; main returns 0
MainTranslate ==
  /\ main_pc = "translating"
  /\ output' = output \o <<Write("cout", "header", "----------C Code----------"),
                            Write("cout", "code", translate_package(heap, package))>>
  /\ main_pc' = "returned"
  /\ exit_status' = "EXIT_SUCCESS"
  /\ UNCHANGED got
  /\ UNCHANGED <<lexer_vars, eol_vars, parser_vars>>

\* The process at the start of main: no Lexer and no Parser yet
MainInit ==
  /\ main_pc = "start"
  /\ output = <<>>
  /\ exit_status = "running"
  /\ got = NoLookup
  /\ lexer = Lexer(<<NUL>>, DefaultColumnsPerTab)
  /\ lexer_pc = "absent"
  /\ tokens = <<>>
  /\ parser = Parser(<<>>)
  /\ parser_pc = "absent"
  /\ heap = <<>>
  /\ package = 0
  /\ parser_error = NoToken
  /\ EolIdle

MainNext ==
  \/ MainReadFile
  \/ CrOrCrlf
  \/ DivideOrComment
  \/ IdentifierOrKeyword
  \/ MinusOrArrow
  \/ MultiLineComment
  \/ MultiLineCommentCrOrCrlf
  \/ MultiLineCommentMaybeEnd
  \/ SingleLineComment
  \/ Start
  \/ StartReturn
  \/ MainPrintTokens
  \/ RunPrologue
  \/ ParseStart
  \/ ParseFuncName
  \/ ParseFuncParamsStart
  \/ ParseFuncParamOrEnd
  \/ ParseFuncParam
  \/ ParseFuncParamName
  \/ ParseFuncParamsNextOrEnd
  \/ ParseFuncReturnClause
  \/ ParseFuncReturnType
  \/ ParseFuncBody
  \/ ParseStatement
  \/ ParseExpressionValue
  \/ ParseExpressionOperator
  \/ MainPrintGraph
  \/ MainTranslate

MainSpec == MainInit /\ [][MainNext]_vars

(***************************************************************************)
(* The translator harness: translate is called on the Package a parse      *)
(* returned, more than once.                                               *)
(***************************************************************************)
\* most calls of translate on one graph
MaxTranslateCalls == 2

\* The texts the calls of translate have returned
Translations == SelectSeq(output, LAMBDA w : w.what = "translate")

\* A call of translate that empties the function list it walked
TranslateCall_consuming ==
  /\ main_pc = "absent"
  /\ parser_pc = "returned"
  /\ Len(Translations) < MaxTranslateCalls
  /\ output' = Append(output, Write("result", "translate",
                                    translate_package(heap, package)))
  /\ heap' = [heap EXCEPT ![package].function_entities = <<>>]
  /\ UNCHANGED <<main_pc, exit_status, got>>
  /\ UNCHANGED <<lexer_vars, eol_vars, parser, parser_pc, package, parser_error>>

\* std::string code = translate(package)
TranslateCall ==
  /\ main_pc = "absent"
  /\ parser_pc = "returned"
  /\ Len(Translations) < MaxTranslateCalls
  /\ output' = Append(output, Write("result", "translate",
                                    translate_package(heap, package)))
  /\ UNCHANGED <<main_pc, exit_status, got>>
  /\ UNCHANGED <<lexer_vars, eol_vars, parser_vars>>

TranslateNext ==
  \/ RunPrologue
  \/ ParseStart
  \/ ParseFuncName
  \/ ParseFuncParamsStart
  \/ ParseFuncParamOrEnd
  \/ ParseFuncParam
  \/ ParseFuncParamName
  \/ ParseFuncParamsNextOrEnd
  \/ ParseFuncReturnClause
  \/ ParseFuncReturnType
  \/ ParseFuncBody
  \/ ParseStatement
  \/ ParseExpressionValue
  \/ ParseExpressionOperator
  \/ TranslateCall

TranslateSpec == ParserInit /\ [][TranslateNext]_vars

(***************************************************************************)
(* The container harness: add, remove and get are called on the Object     *)
(* lists of two Functions.                                                 *)
(***************************************************************************)
\* longest list of a container
MaxListLen == 2

\* Two Functions and three Objects, named a, ab and a
ContainerHeap ==
  <<FunctionEntity, FunctionEntity,
    [ObjectEntity EXCEPT !.name_ = <<"a">>],
    [ObjectEntity EXCEPT !.name_ = <<"a", "b">>],
    [ObjectEntity EXCEPT !.name_ = <<"a">>]>>

Containers == {1, 2}

Contained == {3, 4, 5}

LookupNames == {<<"a">>, <<"a", "b">>, <<"b">>}

ContainerInit ==
  /\ heap = ContainerHeap
  /\ got = NoLookup
  /\ main_pc = "absent"
  /\ output = <<>>
  /\ exit_status = "running"
  /\ parser = Parser(<<>>)
  /\ parser_pc = "absent"
  /\ package = 0
  /\ parser_error = NoToken
  /\ LexerIdle
  /\ EolIdle

\* function->add(object)
ContainerAdd ==
  /\ parser_pc = "absent"
  /\ \E c \in Containers, e \in Contained :
       /\ Len(heap[c].object_entities) < MaxListLen
       /\ heap' = EntityContainer_add(heap, c, "object_entities", e)
  /\ UNCHANGED <<parser, parser_pc, package, parser_error, main_vars, got>>
  /\ UNCHANGED <<lexer_vars, eol_vars>>

\* function->remove(object)
ContainerRemove ==
  /\ parser_pc = "absent"
  /\ \E c \in Containers, e \in Contained :
       heap' \in EntityContainer_remove(heap, c, "object_entities", e)
  /\ UNCHANGED <<parser, parser_pc, package, parser_error, main_vars, got>>
  /\ UNCHANGED <<lexer_vars, eol_vars>>

\* function->get_object(name)
ContainerGet ==
  /\ parser_pc = "absent"
  /\ \E c \in Containers, name \in LookupNames :
       got' = [container |-> c, field |-> "object_entities", name |-> name,
               result |-> get_object(heap, c, name)]
  /\ UNCHANGED <<parser_vars, main_vars>>
  /\ UNCHANGED <<lexer_vars, eol_vars>>

ContainerNext ==
  \/ ContainerAdd
  \/ ContainerRemove
  \/ ContainerGet

ContainerSpec == ContainerInit /\ [][ContainerNext]_vars

(***************************************************************************)
(* Claims about the lexer                                                  *)
(***************************************************************************)
\* C1: on every sentinel-terminated source Lexer::run terminates: it
\* eventually returns its token list.
C1_RunTerminates == <>(lexer_pc = "returned")

TokenTypes(ts) == [i \in DOMAIN ts |-> ts[i].type]

\* C2: the returned token list holds exactly one end token, its last
\* element, and no end token is in the list while the run continues.
C2_OneEndTokenLast ==
  /\ lexer_pc = "returned" =>
       /\ Len(tokens) >= 1
       /\ tokens[Len(tokens)].type = "end"
       /\ \A i \in 1..(Len(tokens) - 1) : tokens[i].type /= "end"
  /\ lexer_pc = "running" =>
       \A i \in DOMAIN lexer.tokens_ : lexer.tokens_[i].type /= "end"

C2_Witness ==
  /\ lexer_pc = "returned"
  /\ Len(tokens) >= 3
  /\ tokens[Len(tokens)].type = "end"

\* A character with no case in the start state
Unmatched(c) ==
  ~(isalpha(c) \/ c = "_" \/ c \in OneCharTokens
      \/ c \in {LF, CR, TAB, " ", "/", "-", NUL})

\* C3: in the start state a character that matches no case produces no
\* token and is skipped: the pass moves the index past it and stays in the
\* start state.
C3_UnmatchedCharSkipped ==
  (lexer_pc = "running" /\ lexer.state_ = "start" /\ Unmatched(current_char(lexer)))
    => /\ run_step(lexer).index_ = lexer.index_ + 1
       /\ run_step(lexer).tokens_ = lexer.tokens_
       /\ run_step(lexer).state_ = "start"

\* C4: a tab consumed in the start state at column C with tab width W
\* leaves the column counter at ((C + W) / W) * W.
C4_TabColumn ==
  (lexer_pc = "running" /\ lexer.state_ = "start" /\ current_char(lexer) = TAB)
    => run_step(lexer).column_number_ =
         ((lexer.column_number_ + lexer.columns_per_tab_)
            \div lexer.columns_per_tab_) * lexer.columns_per_tab_

\* C5: the renderings of one logical source with LF, lone CR and CRLF line
\* breaks lex to the same tokens: kind, lexeme, line and column.
C5_LineEndingsAgree ==
  lexer_pc = "returned" =>
    \A i \in DOMAIN eol_results : eol_results[i] = tokens

C5_Witness ==
  /\ lexer_pc = "returned"
  /\ eol_style = Len(EolStyles)
  /\ Len(eol_results) = 2
  /\ \E i \in DOMAIN eol_logical : eol_logical[i] = EOL
  /\ \E i \in DOMAIN tokens :
       tokens[i].line_number = 2 /\ tokens[i].column_number > 1

InMultiLineComment(l) ==
  l.state_ \in {"multi_line_comment", "multi_line_comment_cr_or_crlf",
                "multi_line_comment_maybe_end"}

InComment(l) == InMultiLineComment(l) \/ l.state_ = "single_line_comment"

\* The line breaks among the first n characters of s: every CR, and every
\* LF that does not follow a CR
LineBreaks(s, n) ==
  Cardinality({i \in 1..n :
                 \/ s[i] = CR
                 \/ s[i] = LF /\ (i = 1 \/ s[i - 1] /= CR)})

\* C6: a pass made in a comment state, or one that opens a comment, appends
\* no token, and inside a multi-line comment the line counter is one more
\* than the line breaks consumed (a CR just consumed is counted by the next
\* pass).
C6_CommentsYieldNoToken ==
  lexer_pc = "running" =>
    /\ InComment(lexer) => run_step(lexer).tokens_ = lexer.tokens_
    /\ (lexer.state_ = "divide_or_comment" /\ current_char(lexer) \in {"/", "*"})
         => (run_step(lexer).tokens_ = lexer.tokens_ /\ InComment(run_step(lexer)))
    /\ InMultiLineComment(lexer) =>
         lexer.line_number_ =
           1 + LineBreaks(lexer.source_, lexer.index_)
             - (IF lexer.state_ = "multi_line_comment_cr_or_crlf" THEN 1 ELSE 0)

C6_Witness ==
  /\ lexer_pc = "returned"
  /\ Len(lexer.source_) >= 7
  /\ SubSeq(lexer.source_, 1, 6) = <<"/", "*", CR, LF, "*", "/">>
  /\ Len(tokens) = 2
  /\ tokens[1].line_number = 2

IdentStart(c) == c \in Lower \cup Upper \cup {"_"}

IdentChar(c) == c \in Lower \cup Upper \cup Digits \cup {"_"}

\* The last position of the maximal run of identifier characters from i
RunEnd(s, i) ==
  CHOOSE j \in i..Len(s) :
    /\ \A k \in i..j : IdentChar(s[k])
    /\ j = Len(s) \/ ~IdentChar(s[j + 1])

\* The kind the claim gives a lexeme
ClaimedKind(lexeme) ==
  CASE lexeme = <<"f","u","n","c">> -> "func_keyword"
    [] lexeme = <<"r","e","t","u","r","n">> -> "return_keyword"
    [] OTHER -> "identifier"

\* The maximal identifier-shaped runs of s outside comments, in order, each
\* with the kind the claim gives it.  mode: "code", "line" (in a // comment)
\* or "block" (in a /* comment).
RECURSIVE RunsOutsideComments(_, _, _)
RunsOutsideComments(s, i, mode) ==
  IF i > Len(s) THEN <<>>
  ELSE CASE mode = "code" ->
         IF IdentStart(s[i])
         THEN LET j == RunEnd(s, i)
                  lexeme == SubSeq(s, i, j)
              IN <<[type |-> ClaimedKind(lexeme), lexeme |-> lexeme]>>
                   \o RunsOutsideComments(s, j + 1, "code")
         ELSE IF s[i] = "/" /\ i < Len(s) /\ s[i + 1] = "/"
         THEN RunsOutsideComments(s, i + 2, "line")
         ELSE IF s[i] = "/" /\ i < Len(s) /\ s[i + 1] = "*"
         THEN RunsOutsideComments(s, i + 2, "block")
         ELSE RunsOutsideComments(s, i + 1, "code")
       [] mode = "line" ->
         IF s[i] \in {LF, CR}
         THEN RunsOutsideComments(s, i + 1, "code")
         ELSE RunsOutsideComments(s, i + 1, "line")
       [] mode = "block" ->
         IF s[i] = "*" /\ i < Len(s) /\ s[i + 1] = "/"
         THEN RunsOutsideComments(s, i + 2, "code")
         ELSE RunsOutsideComments(s, i + 1, "block")

WordTokenTypes == {"identifier", "func_keyword", "return_keyword"}

\* The identifier and keyword tokens of ts, in order: kind and lexeme
WordTokens(ts) ==
  LET ws == SelectSeq(ts, LAMBDA t : t.type \in WordTokenTypes)
  IN [i \in DOMAIN ws |-> [type |-> ws[i].type, lexeme |-> ws[i].lexeme]]

\* C7: between lexemes and at the return, the identifier and keyword tokens
\* are exactly the maximal identifier-shaped runs outside comments of the
\* characters consumed, one token per run, func and return as keywords and
\* every other lexeme as identifier.
C7_IdentifiersAndKeywords ==
  /\ (lexer_pc = "running" /\ lexer.state_ = "start") =>
       WordTokens(lexer.tokens_) =
         RunsOutsideComments(SubSeq(lexer.source_, 1, lexer.index_), 1, "code")
  /\ lexer_pc = "returned" =>
       WordTokens(tokens) =
         RunsOutsideComments(SubSeq(lexer.source_, 1, lexer.index_), 1, "code")

C7_Witness ==
  /\ lexer_pc = "returned"
  /\ Len(tokens) = 3
  /\ tokens[1].type = "func_keyword"
  /\ tokens[1].lexeme = <<"f","u","n","c">>
  /\ tokens[2].type = "identifier"
  /\ tokens[2].lexeme = <<"f","u","n","c","s">>
  /\ tokens[2].line_number = 2

(***************************************************************************)
(* Claims about the parser                                                 *)
(***************************************************************************)
ParserDone == parser_pc \in {"returned", "failed"}

\* The token the pass made from this state reads
TokenRead == parser'.tokens_[parser.iterator_]

\* C8: on every token vector ending with an end token Parser::run ends,
\* either returning the Package (and printing nothing) or failing (and
\* returning nothing); once ended it stays so; the token position never
\* moves back and no end token lies before it.
C8_ParserTerminates ==
  /\ <>ParserDone
  /\ [](/\ parser_pc = "returned" => (package = parser.package_ /\ package /= 0
                                        /\ parser_error = NoToken)
        /\ parser_pc = "failed" => (package = 0 /\ parser_error /= NoToken)
        /\ ~ParserDone => (package = 0 /\ parser_error = NoToken)
        /\ parser.iterator_ <= Len(parser.tokens_) + 1
        /\ \A i \in 1..(parser.iterator_ - 1) :
             i <= Len(parser.tokens_) /\ parser.tokens_[i].type /= "end")
  /\ [][/\ parser'.iterator_ >= parser.iterator_
        /\ ParserDone => UNCHANGED parser_vars]_vars

C8_Witness ==
  /\ parser_pc = "returned"
  /\ Len(heap[package].function_entities) = 2
  /\ parser.iterator_ = Len(parser.tokens_)
  /\ parser.tokens_[parser.iterator_].type = "end"

\* The names of the entities of a container's list
NamesIn(h, c, field) == {h[h[c][field][i]].name_ : i \in DOMAIN h[c][field]}

\* C9: in func_param an identifier that names no Class of the Package's
\* class list makes the parse fail at that token: it is the token reported,
\* the position stays on it and no Object is made or added to the Function.
C9_UnknownParamClassFails ==
  [][(/\ Running("func_param")
      /\ TokenRead.type = "identifier"
      /\ TokenRead.lexeme \notin NamesIn(heap, parser.package_, "class_entities"))
       => /\ parser_pc' = "failed"
          /\ parser_error' = TokenRead
          /\ parser'.iterator_ = parser.iterator_
          /\ Len(heap') = Len(heap)
          /\ heap'[parser.function_].object_entities =
               heap[parser.function_].object_entities]_vars

C9_Witness ==
  /\ parser_pc = "failed"
  /\ parser.state_ = "func_param"
  /\ parser_error.type = "identifier"
  /\ parser_error.lexeme = <<"a">>
  /\ parser_error = parser.tokens_[parser.iterator_]
  /\ Len(heap[parser.function_].object_entities) = 1

\* C10: in expression_value an identifier that names no Object of the
\* Function being parsed makes the parse fail at that token, whatever the
\* other Functions hold; one that does is resolved to an Object of that
\* Function's object list.
C10_OperandResolvesInCurrentFunction ==
  [][(Running("expression_value") /\ TokenRead.type = "identifier")
       => IF TokenRead.lexeme \notin NamesIn(heap, parser.function_, "object_entities")
          THEN /\ parser_pc' = "failed"
               /\ parser_error' = TokenRead
               /\ parser'.iterator_ = parser.iterator_
               /\ heap' = heap
          ELSE /\ parser_pc' = "running"
               /\ heap'[parser'.object_expression_].kind = "ObjectExpression"
               /\ heap'[parser'.object_expression_].object_ = parser'.object_
               /\ \E i \in DOMAIN heap[parser.function_].object_entities :
                    /\ heap[parser.function_].object_entities[i] = parser'.object_
                    /\ heap[parser'.object_].name_ = TokenRead.lexeme]_vars

\* The parse failed on an operand that names an Object of an earlier Function
C10_Witness ==
  /\ parser_pc = "failed"
  /\ parser.state_ = "expression_value"
  /\ parser_error.type = "identifier"
  /\ \E i \in DOMAIN heap[parser.package_].function_entities :
       LET f == heap[parser.package_].function_entities[i] IN
       /\ f /= parser.function_
       /\ parser_error.lexeme \in NamesIn(heap, f, "object_entities")

\* The entities of kind k
EntitiesOfKind(h, k) == {e \in DOMAIN h : h[e].kind = k}

\* An expression is left-nested: an ObjectExpression, or a plus node of
\* exactly two operands whose second is an ObjectExpression and whose first
\* is left-nested
RECURSIVE LeftNested(_, _)
LeftNested(h, e) ==
  \/ h[e].kind = "ObjectExpression"
  \/ /\ h[e].kind = "OperatorExpression"
     /\ h[e].operator_type_ = "plus"
     /\ Len(h[e].expression_entities) = 2
     /\ h[h[e].expression_entities[2]].kind = "ObjectExpression"
     /\ LeftNested(h, h[e].expression_entities[1])

\* The names of the Objects an expression refers to, left to right
RECURSIVE OperandNames(_, _)
OperandNames(h, e) ==
  IF h[e].kind = "ObjectExpression" THEN <<h[h[e].object_].name_>>
  ELSE LET es == h[e].expression_entities
       IN Flatten([i \in DOMAIN es |-> OperandNames(h, es[i])])

\* The position of the last return keyword before position i
LastReturn(ts, i) ==
  CHOOSE k \in 1..(i - 1) :
    /\ ts[k].type = "return_keyword"
    /\ \A j \in (k + 1)..(i - 1) : ts[j].type /= "return_keyword"

\* The return statement `return x1 + ... + xn;` has just been closed
StatementClosed ==
  /\ parser_pc = "running"
  /\ parser.state_ = "statement"
  /\ parser.iterator_ > 1
  /\ parser.tokens_[parser.iterator_ - 1].type = "semicolon"

\* The operand lexemes x1 .. xn of the statement just closed
ClosedOperands ==
  LET k == LastReturn(parser.tokens_, parser.iterator_)
      n == (parser.iterator_ - 1 - k) \div 2
  IN [j \in 1..n |-> parser.tokens_[k + 2 * j - 1].lexeme]

\* C11: the expression stored for `return x1 + ... + xn;` is left-nested
\* over x1 .. xn in source order: a single ObjectExpression for n = 1, and
\* for n >= 2 a plus node of two operands, the second the ObjectExpression
\* of xn and the first the expression of x1 .. x(n-1); never a flat node.
C11_LeftNestedExpression ==
  /\ \A r \in EntitiesOfKind(heap, "ReturnStatement") :
       heap[r].expression_ /= 0 => LeftNested(heap, heap[r].expression_)
  /\ StatementClosed =>
       LET e == heap[parser.return_statement_].expression_ IN
       /\ e /= 0
       /\ OperandNames(heap, e) = ClosedOperands
       /\ (Len(ClosedOperands) = 1) <=> (heap[e].kind = "ObjectExpression")

\* `return a + a + a;` has been stored as plus(plus(a, a), a)
C11_Witness ==
  /\ StatementClosed
  /\ Len(ClosedOperands) = 3
  /\ LET e == heap[parser.return_statement_].expression_ IN
     /\ heap[e].kind = "OperatorExpression"
     /\ Len(heap[e].expression_entities) = 2
     /\ heap[heap[e].expression_entities[1]].kind = "OperatorExpression"
     /\ heap[heap[e].expression_entities[2]].kind = "ObjectExpression"

\* The token kinds that continue the grammar in each state.  The states
\* func_param_or_end and func_return_clause hand every token but their own
\* to func_param and func_body, whose cases are the rest of their sets.
Expected(state) ==
  CASE state = "start" -> {"end", "func_keyword"}
    [] state = "func_name" -> {"identifier"}
    [] state = "func_params_start" -> {"left_paren"}
    [] state = "func_param_or_end" -> {"right_paren", "identifier"}
    [] state = "func_param" -> {"identifier"}
    [] state = "func_param_name" -> {"identifier"}
    [] state = "func_params_next_or_end" -> {"comma", "right_paren"}
    [] state = "func_return_clause" -> {"arrow", "left_curly"}
    [] state = "func_return_type" -> {"identifier"}
    [] state = "func_body" -> {"left_curly"}
    [] state = "statement" -> {"right_curly", "return_keyword"}
    [] state = "expression_value" -> {"identifier"}
    [] state = "expression_operator" -> {"semicolon", "plus"}

\* The pass fails on the token it read: that token is reported, the
\* position stays on it, the graph is left as it was and nothing is returned
FailsAtOnce ==
  /\ parser_pc' = "failed"
  /\ parser_error' = TokenRead
  /\ parser'.iterator_ = parser.iterator_
  /\ parser'.state_ = parser.state_
  /\ heap' = heap
  /\ package' = 0

\* The pass hands the token it read to the state that fails on it
HandsOver ==
  /\ parser.state_ \in {"func_param_or_end", "func_return_clause"}
  /\ parser_pc' = "running"
  /\ parser'.iterator_ = parser.iterator_
  /\ TokenRead.type \notin Expected(parser'.state_)
  /\ parser'.state_ \notin {"func_param_or_end", "func_return_clause"}
  /\ heap' = heap
  /\ package' = 0
  /\ parser_error' = NoToken

\* C12: a current token outside the expected set of the current state makes
\* the parser fail at once, in that pass or (for the two states without a
\* failing case of their own) in the pass of the state it is handed to: the
\* token reported is the current token, the position is not advanced and no
\* Package is returned.
C12_FailsFast ==
  /\ [][(parser_pc = "running" /\ TokenRead.type \notin Expected(parser.state_))
          => (FailsAtOnce \/ HandsOver)]_vars
  /\ [](parser_pc = "failed" =>
          /\ parser.iterator_ = Len(parser.tokens_)
          /\ parser_error = parser.tokens_[parser.iterator_]
          /\ package = 0)

\* `func a ( ,` has failed on the comma, handed from func_param_or_end
C12_Witness ==
  /\ parser_pc = "failed"
  /\ parser.state_ = "func_param"
  /\ parser_error.type = "comma"
  /\ parser.iterator_ = 4
  /\ parser_error.column_number = 4

\* The elements of a container's list
ElementsOf(h, c, field) == {h[c][field][i] : i \in DOMAIN h[c][field]}

\* A Function's return-mode and return class agree
ReturnModeAgrees(h, pkg, f) ==
  /\ h[f].return_type_ \in {"none", "value"}
  /\ h[f].return_type_ = "none" => h[f].return_class_ = 0
  /\ h[f].return_type_ = "value" =>
       /\ h[f].return_class_ \in ElementsOf(h, pkg, "class_entities")
       /\ h[h[f].return_class_].kind = "Class"

\* C13: in every parser state, and in the Package returned, each Function's
\* return-mode and return class agree: none has no return Class, value has
\* a return Class that is a Class of the Package's class list.
C13_ReturnModeAgrees ==
  /\ \A f \in EntitiesOfKind(heap, "Function") :
       ReturnModeAgrees(heap, parser.package_, f)
  /\ parser_pc = "returned" =>
       \A f \in ElementsOf(heap, package, "function_entities") :
         ReturnModeAgrees(heap, package, f)

\* A Package with a Function of each return-mode has been returned
C13_Witness ==
  /\ parser_pc = "returned"
  /\ \E f, g \in ElementsOf(heap, package, "function_entities") :
       /\ heap[f].return_type_ = "none"
       /\ heap[g].return_type_ = "value"
       /\ heap[g].return_class_ /= 0

(***************************************************************************)
(* Claims about the pipeline and the translator                            *)
(***************************************************************************)
\* The kind and lexeme of each token
KindsAndLexemes(ts) ==
  [i \in DOMAIN ts |-> [type |-> ts[i].type, lexeme |-> ts[i].lexeme]]

\* The 19 tokens of the round-trip scenario
AddTokens ==
  <<[type |-> "func_keyword", lexeme |-> <<"f", "u", "n", "c">>],
    [type |-> "identifier", lexeme |-> <<"a", "d", "d">>],
    [type |-> "left_paren", lexeme |-> <<"(">>],
    [type |-> "identifier", lexeme |-> <<"i", "n", "t">>],
    [type |-> "identifier", lexeme |-> <<"a">>],
    [type |-> "comma", lexeme |-> <<",">>],
    [type |-> "identifier", lexeme |-> <<"i", "n", "t">>],
    [type |-> "identifier", lexeme |-> <<"b">>],
    [type |-> "right_paren", lexeme |-> <<")">>],
    [type |-> "arrow", lexeme |-> <<"-", ">">>],
    [type |-> "identifier", lexeme |-> <<"i", "n", "t">>],
    [type |-> "left_curly", lexeme |-> <<"{">>],
    [type |-> "return_keyword", lexeme |-> <<"r", "e", "t", "u", "r", "n">>],
    [type |-> "identifier", lexeme |-> <<"a">>],
    [type |-> "plus", lexeme |-> <<"+">>],
    [type |-> "identifier", lexeme |-> <<"b">>],
    [type |-> "semicolon", lexeme |-> <<";">>],
    [type |-> "right_curly", lexeme |-> <<"}">>],
    [type |-> "end", lexeme |-> <<>>]>>

\* The text the round-trip scenario translates to
AddCode ==
  <<"i", "n", "t", " ", "a", "d", "d", "(", "i", "n", "t", " ", "a", ",", " ", "i", "n", "t", " ", "b", ")", " ", "{", LF>>
    \o <<" ", " ", "r", "e", "t", "u", "r", "n", " ", "(", "a", "+", "b", ")", ";", LF>>
    \o <<"}", LF>>

\* The Package is one Function add of return-mode value and Class int, with
\* parameters a:int and b:int and one ReturnStatement over plus(a, b)
AddGraph(h, pkg) ==
  /\ Len(h[pkg].function_entities) = 1
  /\ LET f == h[pkg].function_entities[1]
         int == get_class(h, pkg, <<"i", "n", "t">>)
     IN /\ h[f].kind = "Function"
        /\ h[f].name_ = <<"a", "d", "d">>
        /\ int /= 0
        /\ h[f].return_type_ = "value"
        /\ h[f].return_class_ = int
        /\ Len(h[f].object_entities) = 2
        /\ LET a == h[f].object_entities[1]
               b == h[f].object_entities[2]
           IN /\ h[a].name_ = <<"a">> /\ h[a].cls_ = int
              /\ h[b].name_ = <<"b">> /\ h[b].cls_ = int
              /\ Len(h[f].statement_entities) = 1
              /\ LET r == h[f].statement_entities[1]
                     e == h[r].expression_
                 IN /\ h[r].kind = "ReturnStatement"
                    /\ e /= 0
                    /\ h[e].kind = "OperatorExpression"
                    /\ h[e].operator_type_ = "plus"
                    /\ Len(h[e].expression_entities) = 2
                    /\ LET x == h[e].expression_entities[1]
                           y == h[e].expression_entities[2]
                       IN /\ h[x].kind = "ObjectExpression" /\ h[x].object_ = a
                          /\ h[y].kind = "ObjectExpression" /\ h[y].object_ = b

\* C14: the source `func add(int a, int b) -> int { return a+b; }` with the
\* sentinel lexes to the 19 tokens of AddTokens, parses (without failing) to
\* the graph of AddGraph and translates to the text of AddCode.
C14_RoundTrip ==
  lexer.source_ = AddSource \o <<NUL>> =>
    /\ lexer_pc = "returned" /\ main_pc = "lexing" =>
         KindsAndLexemes(tokens) = AddTokens
    /\ main_pc \in {"parsing", "translating", "returned"} =>
         KindsAndLexemes(parser.tokens_) = AddTokens
    /\ parser_pc /= "failed"
    /\ parser_pc = "returned" => AddGraph(heap, package)
    /\ main_pc = "returned" =>
         /\ output[Len(output)] = Write("cout", "code", AddCode)
         /\ translate_package(heap, package) = AddCode
         /\ exit_status = "EXIT_SUCCESS"

C14_Witness ==
  /\ lexer.source_ = AddSource \o <<NUL>>
  /\ main_pc = "returned"
  /\ output[Len(output)].what = "code"
  /\ Len(output[Len(output)].value) = Len(AddCode)

\* The translations a sequence of writes holds
TranslationsOf(out) == SelectSeq(out, LAMBDA w : w.what = "translate")

RECURSIVE JoinWith(_, _)
JoinWith(texts, sep) ==
  IF texts = <<>> THEN <<>>
  ELSE IF Len(texts) = 1 THEN texts[1]
  ELSE texts[1] \o sep \o JoinWith(Tail(texts), sep)

\* The signature the claim gives a Function
ClaimedSignature(h, f) ==
  (IF h[f].return_type_ = "none" THEN <<"v", "o", "i", "d", " ">>
   ELSE h[h[f].return_class_].name_ \o <<" ">>)
    \o h[f].name_ \o <<"(">>
    \o JoinWith([i \in DOMAIN h[f].object_entities |->
                   LET o == h[f].object_entities[i]
                   IN h[h[o].cls_].name_ \o <<" ">> \o h[o].name_],
                <<",", " ">>)
    \o <<")", " ", "{", LF>>

StartsWith(text, prefix) ==
  Len(text) >= Len(prefix) /\ SubSeq(text, 1, Len(prefix)) = prefix

HasDiagnostic == \E i \in DOMAIN output : output[i].stream = "cerr"

\* C17: in main, once the parser has failed the output is the echoed source
\* and the token list followed by the one diagnostic of the offending
\* token, the process has ended with a non-zero status, and neither the
\* graph view nor the C text is written then or later.
C17_FailureStopsPipeline ==
  /\ [](HasDiagnostic <=> parser_pc = "failed")
  /\ [](HasDiagnostic =>
          /\ exit_status = "EXIT_FAILURE"
          /\ main_pc = "parsing"
          /\ parser.iterator_ <= Len(parser.tokens_)
          /\ output =
               <<Write("cout", "header", "----------V Code----------"),
                 Write("cout", "source_code", lexer.source_),
                 Write("cout", "header", "----------Tokens----------")>>
                 \o print_tokens(parser.tokens_)
                 \o <<Diagnostic(parser.tokens_[parser.iterator_])>>
          /\ \A i \in DOMAIN output : output[i].what \notin {"graph", "code"})
  /\ [][HasDiagnostic => UNCHANGED vars]_vars

\* `func f(x a) { }` has failed on the x
C17_Witness ==
  /\ lexer.source_ = UnknownClassSource \o <<NUL>>
  /\ parser_pc = "failed"
  /\ exit_status = "EXIT_FAILURE"
  /\ output[Len(output)] = Diagnostic(Token("identifier", <<"x">>, 1, 8))

(***************************************************************************)
(* Claims about the containers and the graph                               *)
(***************************************************************************)
\* C18: a lookup returns the first entity of the list, in insertion order,
\* whose name equals the requested string exactly, returns nullptr when no
\* entity of the list has that name, and changes neither the list nor any
\* entity.
C18_GetFirstMatch ==
  [][got' /= got =>
       LET es == heap[got'.container][got'.field]
           r == got'.result
       IN /\ heap' = heap
          /\ (r = 0) <=> (\A i \in DOMAIN es : heap[es[i]].name_ /= got'.name)
          /\ r /= 0 =>
               \E i \in DOMAIN es :
                 /\ es[i] = r
                 /\ heap[r].name_ = got'.name
                 /\ \A j \in 1..(i - 1) : heap[es[j]].name_ /= got'.name]_vars

\* A lookup of a name that two entities of the list have returned the first
C18_Witness ==
  /\ got.result /= 0
  /\ LET es == heap[got.container][got.field] IN
     /\ Len(es) = 2
     /\ es[1] /= es[2]
     /\ heap[es[1]].name_ = got.name
     /\ heap[es[2]].name_ = got.name
     /\ got.result = es[1]

\* The places of an entity: the containers and positions whose list holds it
Places(h, e) ==
  {<<c, i>> \in Containers \X (1..MaxListLen) :
     i <= Len(h[c].object_entities) /\ h[c].object_entities[i] = e}

\* C19: after any sequence of add and remove calls every entity is in at
\* most one list, at most once, and its back-reference is that container,
\* or nullptr when it is in no list.
C19_OneContainerAndBackReference ==
  \A e \in Contained :
    /\ Cardinality(Places(heap, e)) <= 1
    /\ \A pl \in Places(heap, e) : heap[e].parent_ = pl[1]
    /\ Places(heap, e) = {} => heap[e].parent_ = 0

\* C20: in the Package the parser returns, a Function of return-mode none
\* holds no ReturnStatement with an expression.
C20_NoValueInNoneFunction ==
  parser_pc = "returned" =>
    \A f \in ElementsOf(heap, package, "function_entities") :
      heap[f].return_type_ = "none" =>
        \A r \in ElementsOf(heap, f, "statement_entities") :
          heap[r].kind = "ReturnStatement" => heap[r].expression_ = 0

\* No two entities of a list have the same name
UniqueNames(h, c, field) ==
  \A i, j \in DOMAIN h[c][field] :
    i /= j => h[h[c][field][i]].name_ /= h[h[c][field][j]].name_

\* C21: in the Package the parser returns no two Functions have the same
\* name and no two Objects of one Function have the same name.
C21_NamesUniqueInScope ==
  parser_pc = "returned" =>
    /\ UniqueNames(heap, package, "function_entities")
    /\ \A f \in ElementsOf(heap, package, "function_entities") :
         UniqueNames(heap, f, "object_entities")

\* The expression nodes of the tree under an expression
RECURSIVE ExpressionNodes(_, _)
ExpressionNodes(h, e) ==
  IF e = 0 THEN {}
  ELSE IF h[e].kind = "OperatorExpression"
  THEN {e} \cup UNION {ExpressionNodes(h, h[e].expression_entities[i]) :
                         i \in DOMAIN h[e].expression_entities}
  ELSE {e}

\* A Function is well-formed for the translator
WellFormedFunction(h, pkg, f) ==
  /\ h[f].name_ /= <<>>
  /\ \A o \in ElementsOf(h, f, "object_entities") :
       /\ h[o].name_ /= <<>>
       /\ h[o].cls_ \in ElementsOf(h, pkg, "class_entities")
  /\ \A r \in ElementsOf(h, f, "statement_entities") :
       /\ h[r].kind = "ReturnStatement"
       /\ h[r].expression_ /= 0
       /\ \A e \in ExpressionNodes(h, h[r].expression_) :
            /\ h[e].kind \in {"ObjectExpression", "OperatorExpression"}
            /\ h[e].kind = "ObjectExpression" =>
                 h[e].object_ \in ElementsOf(h, f, "object_entities")
            /\ h[e].kind = "OperatorExpression" =>
                 Len(h[e].expression_entities) >= 2

\* C22: every Package the parser returns is well-formed for the
\* translator: every Object has a Class of the Package's class list, every
\* ReturnStatement has an expression, every ObjectExpression refers to an
\* Object of the Function that contains it, every OperatorExpression has at
\* least two operands, and every Function and Object has a non-empty name.
C22_ReturnedPackageWellFormed ==
  parser_pc = "returned" =>
    \A f \in ElementsOf(heap, package, "function_entities") :
      WellFormedFunction(heap, package, f)

\* A Package with a parameter and a statement over an operator expression
\* has been returned
C22_Witness ==
  /\ parser_pc = "returned"
  /\ \E f \in ElementsOf(heap, package, "function_entities") :
       /\ Len(heap[f].object_entities) >= 1
       /\ \E r \in ElementsOf(heap, f, "statement_entities") :
            /\ heap[r].expression_ /= 0
            /\ heap[heap[r].expression_].kind = "OperatorExpression"

(***************************************************************************)
(* More claims about the lexer                                             *)
(***************************************************************************)
\* C23: whenever the current character is the sentinel the run goes on to
\* emit the end token and return, also inside a single-line comment without
\* a line break after it and inside a multi-line comment never closed.
C23_SentinelEndsRun ==
  (lexer_pc = "running" /\ current_char(lexer) = NUL)
    ~> (/\ lexer_pc = "returned"
        /\ tokens /= <<>>
        /\ tokens[Len(tokens)].type = "end")

\* The token list after a pass: the list returned, or the member
TokensAfter == IF lexer_pc' = "returned" THEN tokens' ELSE lexer'.tokens_

\* The shapes a lexeme has: empty (end), an identifier, a one-character
\* token, "/", "-" or "->"
LexemeShape(lexeme) ==
  \/ lexeme = <<>>
  \/ IdentStart(lexeme[1]) /\ \A i \in DOMAIN lexeme : IdentChar(lexeme[i])
  \/ Len(lexeme) = 1 /\ lexeme[1] \in OneCharTokens \cup {"/", "-"}
  \/ lexeme = <<"-", ">">>

\* C24: a token added by a pass has as lexeme the source characters from
\* the index saved on the last entry to the start state (this pass, when it
\* is made in the start state) up to the current index, and as line and
\* column the counters saved at that entry; no whitespace, line break or
\* comment is part of it and the end token's lexeme is empty.  Between the
\* entry and the token the saved span is the lexeme so far.
C24_LexemeSpan ==
  /\ [][Len(TokensAfter) = Len(lexer.tokens_) + 1 =>
          LET t == TokensAfter[Len(TokensAfter)]
              entry == lexer.state_ = "start"
              index == IF entry THEN lexer.index_ ELSE lexer.start_index_
              line == IF entry THEN lexer.line_number_
                      ELSE lexer.start_line_number_
              column == IF entry THEN lexer.column_number_
                        ELSE lexer.start_column_number_
          IN /\ t.lexeme = SubSeq(lexer.source_, index + 1, lexer'.index_)
             /\ t.line_number = line
             /\ t.column_number = column
             /\ LexemeShape(t.lexeme)
             /\ (t.type = "end") <=> (t.lexeme = <<>>)]_vars
  /\ [](lexer_pc = "running" /\ lexer.state_ \in
            {"identifier_or_keyword", "divide_or_comment", "minus_or_arrow"}
          => /\ lexer.start_index_ < lexer.index_
             /\ LexemeShape(SubSeq(lexer.source_, lexer.start_index_ + 1,
                                    lexer.index_)))

\* A word on the second line, after a comment and a space: the token is
\* the word alone, at line 2, column 2
C24_Witness ==
  /\ lexer_pc = "returned"
  /\ lexer.source_ = <<"/", "/", LF, " ", "f", "u", "n", "c", NUL>>
  /\ tokens = <<Token("func_keyword", <<"f", "u", "n", "c">>, 2, 2),
                Token("end", <<>>, 2, 6)>>

\* s is a prefix of t
IsPrefix(s, t) == Len(s) <= Len(t) /\ SubSeq(t, 1, Len(s)) = s

\* C25: in a pass the index stays or grows by one and the token list is
\* only appended to; the index never passes the final sentinel.
C25_IndexMonotone ==
  /\ [](/\ lexer.index_ <= Len(lexer.source_) - 1
        /\ lexer.source_[Len(lexer.source_)] = NUL)
  /\ [][/\ lexer'.index_ \in {lexer.index_, lexer.index_ + 1}
        /\ IsPrefix(lexer.tokens_, TokensAfter)
        /\ Len(TokensAfter) <= Len(lexer.tokens_) + 1]_vars

\* The run is on the final sentinel inside a comment, with a token made
C25_Witness ==
  /\ lexer_pc = "running"
  /\ lexer.index_ = Len(lexer.source_) - 1
  /\ lexer.index_ >= 3
  /\ lexer.state_ = "single_line_comment"
  /\ Len(lexer.tokens_) = 1

\* C26: a '/' read in the start state emits nothing by itself; the next
\* pass emits exactly one divide token with lexeme "/" and leaves the
\* following character unconsumed, to be classified from the start state,
\* unless that character is '/' or '*', when no token is emitted.
C26_DivideOrComment ==
  (lexer_pc = "running" /\ lexer.state_ = "start" /\ current_char(lexer) = "/") =>
    LET l1 == run_step(lexer)
        c == current_char(l1)
        l2 == run_step(l1)
    IN /\ l1.state_ = "divide_or_comment"
       /\ l1.tokens_ = lexer.tokens_
       /\ l1.index_ = lexer.index_ + 1
       /\ IF c \in {"/", "*"}
          THEN l2.tokens_ = lexer.tokens_ /\ l2.index_ = l1.index_ + 1
          ELSE /\ l2.tokens_ =
                    Append(lexer.tokens_,
                           Token("divide", <<"/">>, lexer.line_number_,
                                 lexer.column_number_))
               /\ l2.index_ = l1.index_
               /\ l2.state_ = "start"
               /\ current_char(l2) = c

\* "/a" has been lexed to divide, identifier a, end
C26_Witness ==
  /\ lexer_pc = "returned"
  /\ lexer.source_ = <<"/", "a", NUL>>
  /\ KindsAndLexemes(tokens) =
       <<[type |-> "divide", lexeme |-> <<"/">>],
         [type |-> "identifier", lexeme |-> <<"a">>],
         [type |-> "end", lexeme |-> <<>>]>>

\* C27: a '-' read in the start state emits nothing by itself; the next
\* pass emits exactly one arrow token with lexeme "->" and consumes the '>'
\* when a '>' follows, and otherwise exactly one minus token with lexeme
\* "-", leaving the following character unconsumed.
C27_MinusOrArrow ==
  (lexer_pc = "running" /\ lexer.state_ = "start" /\ current_char(lexer) = "-") =>
    LET l1 == run_step(lexer)
        c == current_char(l1)
        l2 == run_step(l1)
    IN /\ l1.state_ = "minus_or_arrow"
       /\ l1.tokens_ = lexer.tokens_
       /\ l1.index_ = lexer.index_ + 1
       /\ l2.state_ = "start"
       /\ IF c = ">"
          THEN /\ l2.tokens_ =
                    Append(lexer.tokens_,
                           Token("arrow", <<"-", ">">>, lexer.line_number_,
                                 lexer.column_number_))
               /\ l2.index_ = lexer.index_ + 2
          ELSE /\ l2.tokens_ =
                    Append(lexer.tokens_,
                           Token("minus", <<"-">>, lexer.line_number_,
                                 lexer.column_number_))
               /\ l2.index_ = l1.index_
               /\ current_char(l2) = c

\* "->" has been lexed to arrow, end
C27_Witness ==
  /\ lexer_pc = "returned"
  /\ lexer.source_ = <<"-", ">", NUL>>
  /\ KindsAndLexemes(tokens) =
       <<[type |-> "arrow", lexeme |-> <<"-", ">">>],
         [type |-> "end", lexeme |-> <<>>]>>

\* C28: a pass that consumes a tab, in the start state or inside a
\* multi-line comment, leaves the column counter on a multiple of the tab
\* width.
C28_TabInComment ==
  (/\ lexer_pc = "running"
   /\ current_char(lexer) = TAB
   /\ lexer.state_ \in {"start", "multi_line_comment"})
    => /\ run_step(lexer).index_ = lexer.index_ + 1
       /\ run_step(lexer).column_number_ % lexer.columns_per_tab_ = 0

(***************************************************************************)
(* More claims about the parser                                            *)
(***************************************************************************)
\* The parser has made a step
ParserStepped == parser_pc \in {"running", "failed", "returned"}

\* C29: from the first parser step on, and in every Package returned, the
\* Package's class list is exactly one Class named "int", the only Class
\* there is, and no step changes the list or the Class.
C29_OnlyIntClass ==
  /\ [](ParserStepped =>
          /\ Len(heap[parser.package_].class_entities) = 1
          /\ LET c == heap[parser.package_].class_entities[1]
             IN /\ heap[c].kind = "Class"
                /\ heap[c].name_ = <<"i", "n", "t">>
                /\ EntitiesOfKind(heap, "Class") = {c}
          /\ parser_pc = "returned" => package = parser.package_)
  /\ [][ParserStepped =>
          /\ parser'.package_ = parser.package_
          /\ heap'[parser.package_].class_entities =
               heap[parser.package_].class_entities
          /\ \A c \in EntitiesOfKind(heap, "Class") : heap'[c] = heap[c]]_vars

\* A Package has been returned whose Function has a parameter and a return
\* class, both the int Class
C29_Witness ==
  /\ parser_pc = "returned"
  /\ \E f \in ElementsOf(heap, package, "function_entities") :
       /\ heap[f].return_class_ = heap[package].class_entities[1]
       /\ \E o \in ElementsOf(heap, f, "object_entities") :
            heap[o].cls_ = heap[package].class_entities[1]

\* The ReturnStatements whose expression has been stored
ClosedStatements(h) ==
  {r \in EntitiesOfKind(h, "ReturnStatement") : h[r].expression_ /= 0}

\* C30: while the parser is in its start state or its statement state both
\* pending expressions are absent, and no expression node is under the
\* expressions of two return statements.
C30_NoPendingExpression ==
  /\ (parser_pc /= "absent" /\ parser.state_ \in {"start", "statement"}) =>
        /\ parser.operator_expression_ = 0
        /\ parser.object_expression_ = 0
  /\ \A r1, r2 \in ClosedStatements(heap) :
        r1 /= r2 =>
          ExpressionNodes(heap, heap[r1].expression_) \cap
            ExpressionNodes(heap, heap[r2].expression_) = {}

\* Back in the statement state after a statement with an operator, with an
\* earlier statement closed too
C30_Witness ==
  /\ Running("statement")
  /\ Cardinality(ClosedStatements(heap)) = 2
  /\ \E r \in ClosedStatements(heap) :
       /\ r = parser.return_statement_
       /\ heap[heap[r].expression_].kind = "OperatorExpression"

(***************************************************************************)
(* More claims about the translator and the graph                          *)
(***************************************************************************)
\* The text the claim gives an expression
RECURSIVE ClaimedExpression(_, _)
ClaimedExpression(h, e) ==
  IF h[e].kind = "ObjectExpression" THEN h[h[e].object_].name_
  ELSE <<"(">>
         \o JoinWith([i \in DOMAIN h[e].expression_entities |->
                        ClaimedExpression(h, h[e].expression_entities[i])],
                     <<"+">>)
         \o <<")">>

\* text holds part as a contiguous piece
Contains(text, part) ==
  \E i \in 0..(Len(text) - Len(part)) : SubSeq(text, i + 1, i + Len(part)) = part

\* C31: the translation of an ObjectExpression is its Object's name, that
\* of an OperatorExpression is `(`, the operands' translations in stored
\* order joined by `+`, and `)`; a left-nested expression over x, y, z
\* translates to `((x+y)+z)`; and the code main prints holds these texts.
C31_ExpressionText ==
  /\ \A e \in EntitiesOfKind(heap, "ObjectExpression")
              \cup EntitiesOfKind(heap, "OperatorExpression") :
       /\ translate_expression(heap, e) = ClaimedExpression(heap, e)
       /\ (LeftNested(heap, e) /\ Len(OperandNames(heap, e)) = 3) =>
            LET n == OperandNames(heap, e)
            IN translate_expression(heap, e) =
                 <<"(", "(">> \o n[1] \o <<"+">> \o n[2] \o <<")", "+">>
                   \o n[3] \o <<")">>
  /\ main_pc = "returned" /\ exit_status = "EXIT_SUCCESS" =>
       \A r \in EntitiesOfKind(heap, "ReturnStatement") :
         Contains(output[Len(output)].value,
                  <<"r", "e", "t", "u", "r", "n", " ">>
                    \o ClaimedExpression(heap, heap[r].expression_)
                    \o <<";", LF>>)

\* main has printed the code of `return a+b+c;`
C31_Witness ==
  /\ main_pc = "returned"
  /\ lexer.source_ = ChainSource \o <<NUL>>
  /\ Contains(output[Len(output)].value,
              <<"r", "e", "t", "u", "r", "n", " ", "(", "(", "a", "+", "b",
                ")", "+", "c", ")", ";", LF>>)

\* The first position of e in the list es
FirstPlace(es, e) == CHOOSE i \in DOMAIN es : es[i] = e /\ \A j \in 1..(i - 1) : es[j] /= e

\* C32: a remove call on a container that holds the entity (every entity
\* being in at most one list, with its back-reference right) deletes
\* exactly that entity from the list, clears its back-reference and
\* changes nothing else: no other list, position or back-reference.
C32_RemoveFrame ==
  [][(/\ C19_OneContainerAndBackReference
      /\ \E c \in Containers :
           Len(heap'[c].object_entities) < Len(heap[c].object_entities))
       => \E c \in Containers, e \in Contained :
            /\ Places(heap, e) /= {}
            /\ \A pl \in Places(heap, e) : pl[1] = c
            /\ heap' = [heap EXCEPT
                          ![c].object_entities =
                             Erase(@, FirstPlace(heap[c].object_entities, e)),
                          ![e].parent_ = 0]]_vars

\* The members that hold entities: the lists of the containers and the
\* expression of a ReturnStatement
ListFields ==
  {"class_entities", "function_entities", "object_entities",
   "statement_entities", "expression_entities"}

\* The members that refer to an entity without holding it
ReferenceFields == {"cls_", "return_class_", "object_"}

\* The holders of n: <<holder, member, position>>
Holdings(h, n) ==
  UNION {UNION {{<<c, f, i>> : i \in {k \in DOMAIN h[c][f] : h[c][f][k] = n}} :
                  f \in ListFields \cap DOMAIN h[c]}
           \cup (IF "expression_" \in DOMAIN h[c] /\ h[c].expression_ = n
                 THEN {<<c, "expression_", 1>>} ELSE {}) :
         c \in DOMAIN h}

\* The entities n holds
Held(h, n) == {m \in DOMAIN h : \E g \in Holdings(h, m) : g[1] = n}

\* The entities reached from those of S by at most k holding edges
RECURSIVE HeldUnder(_, _, _)
HeldUnder(h, S, k) ==
  IF k = 0 THEN S
  ELSE HeldUnder(h, S \cup UNION {Held(h, n) : n \in S}, k - 1)

\* The reference edges, each as <<kind of the source, member, kind of the
\* target>>
ReferenceShapes(h) ==
  UNION {{<<h[n].kind, f, h[h[n][f]].kind>> :
            f \in {g \in ReferenceFields \cap DOMAIN h[n] : h[n][g] /= 0}} :
         n \in DOMAIN h}

\* Every Function, Object, Statement and Expression has exactly one holder
\* and no OperatorExpression is under itself
OneHolderNoCycle(h) ==
  /\ \A n \in DOMAIN h :
       h[n].kind \in {"Function", "Object", "ReturnStatement",
                      "ObjectExpression", "OperatorExpression"} =>
         Cardinality(Holdings(h, n)) = 1
  /\ \A e \in EntitiesOfKind(h, "OperatorExpression") :
       e \notin HeldUnder(h, Held(h, e), Len(h))

\* C33 as stated: in every returned Package each Function, Object,
\* Statement and Expression has exactly one holder, no OperatorExpression is
\* its own direct or indirect operand, and the only reference edges are
\* Object-to-Class and Function-to-return-Class.
C33_TreeAsClaimed ==
  parser_pc = "returned" =>
    /\ OneHolderNoCycle(heap)
    /\ ReferenceShapes(heap) \subseteq
         {<<"Object", "cls_", "Class">>,
          <<"Function", "return_class_", "Class">>}

\* C33 amended: as stated, with the ObjectExpression-to-Object references
\* among the reference edges; every entity is held under the Package, each
\* reference of an Object or Function goes to the Package's Class and each
\* reference of an ObjectExpression to an Object.
C33_Tree ==
  parser_pc = "returned" =>
    /\ OneHolderNoCycle(heap)
    /\ HeldUnder(heap, {package}, Len(heap)) = DOMAIN heap
    /\ Holdings(heap, package) = {}
    /\ ReferenceShapes(heap) \subseteq
         {<<"Object", "cls_", "Class">>,
          <<"Function", "return_class_", "Class">>,
          <<"ObjectExpression", "object_", "Object">>}

\* A returned Package with a reference of each kind and an operator
\* expression over two operands
C33_Witness ==
  /\ parser_pc = "returned"
  /\ ReferenceShapes(heap) =
       {<<"Object", "cls_", "Class">>,
        <<"Function", "return_class_", "Class">>,
        <<"ObjectExpression", "object_", "Object">>}
  /\ \E e \in EntitiesOfKind(heap, "OperatorExpression") :
       Len(heap[e].expression_entities) = 2

====
